---- MODULE Spec2Model ----
(***************************************************************************)
(* BuzzBand alerting engine (stem-connect-backend-template/app.py):        *)
(* trip correlation, alert classification, change-driven dispatch, the     *)
(* device channel with simulate-on-failure, and the poll loop.             *)
(*                                                                         *)
(* Conventions.  A Python value that may be None is a sequence of length   *)
(* at most one: <<>> is None and <<v>> is the value v.  A float number of  *)
(* seconds is an integer number of ticks, TicksPerSec ticks to the second, *)
(* so that int() truncates.  Timestamps of event-log entries are left out; *)
(* last_updated_iso is the number of the cycle that wrote it.              *)
(***************************************************************************)
EXTENDS Integers, Sequences, FiniteSets, TLC

VARIABLES
    \* configuration (module globals read from the environment)
    SIM_MODE,
    ORIGIN_NEARBY_THRESHOLD, ORIGIN_APPROACH_THRESHOLD, ORIGIN_STOP_THRESHOLD,
    DEST_NEARBY_THRESHOLD, DEST_APPROACH_THRESHOLD, DEST_STOP_THRESHOLD,
    \* device channel
    arduino_connection, sim_last_cmd, event_log,
    \* state shared with the UI
    current_status, last_origin_secs, last_dest_secs, last_trip_id,
    last_updated_iso, last_origin_alert, last_dest_alert,
    \* the poll thread: its position and the number of cycles it has started
    pc, cycle,
    \* observations: which handler ran last and the calls of _arduino_write it
    \* made, the hardware calls attempted so far, one record per completed
    \* cycle (what it started from, the fetch result if a fetch raised, what it
    \* computed and sent), the number of requests
    \* served, the KeyRoute sessions (the dict sessions, in the order the
    \* sessions were created), and the fetch results a scenario run replays
    handler, sends, hw_calls, trace, requests, sessions, script,
    \* the latest call of a pure function: [fn, args, result]
    call,
    \* where each thread stands inside a handler, and its locals, in the runs
    \* that interleave the statements of two threads
    threads

vars == << SIM_MODE,
           ORIGIN_NEARBY_THRESHOLD, ORIGIN_APPROACH_THRESHOLD, ORIGIN_STOP_THRESHOLD,
           DEST_NEARBY_THRESHOLD, DEST_APPROACH_THRESHOLD, DEST_STOP_THRESHOLD,
           arduino_connection, sim_last_cmd, event_log,
           current_status, last_origin_secs, last_dest_secs, last_trip_id,
           last_updated_iso, last_origin_alert, last_dest_alert,
           pc, cycle, handler, sends, hw_calls, trace, requests, sessions, script,
           call, threads >>

configVars == << SIM_MODE,
           ORIGIN_NEARBY_THRESHOLD, ORIGIN_APPROACH_THRESHOLD, ORIGIN_STOP_THRESHOLD,
           DEST_NEARBY_THRESHOLD, DEST_APPROACH_THRESHOLD, DEST_STOP_THRESHOLD >>

channelVars == << arduino_connection, sim_last_cmd, event_log >>

uiVars == << current_status, last_origin_secs, last_dest_secs, last_trip_id,
             last_updated_iso, last_origin_alert, last_dest_alert >>

-----------------------------------------------------------------------------
(* Bounds of the model *)

\* ticks per second: the resolution of a float number of seconds
TicksPerSec == 2
\* longest prediction list handed to the trip correlator
MaxRows == 2
\* cycles the poll loop starts in a checked run
MaxCycles == 2
\* requests served on the request path in a checked run
MaxRequests == 1

\* KeyRoute sessions created in a run
MaxSessions == 1

-----------------------------------------------------------------------------
(* Python values *)

None == <<>>
Some(v) == <<v>>
NoTrip == "None"

\* int(x) of a positive float
int(ticks) == ticks \div TicksPerSec

Last(s) == s[Len(s)]

-----------------------------------------------------------------------------
(* Trip correlator: match_origin_dest_by_trip, after the two fetches.      *)
(* A row is what _normalize_predictions returns for one prediction:        *)
(* [secs, trip_id, direction_id].                                          *)

\* next((d for d in dest_rows if d["trip_id"] == trip_id), None)
RECURSIVE FirstDest(_, _, _)
FirstDest(dest_rows, trip_id, j) ==
    IF j > Len(dest_rows) THEN None
    ELSE IF dest_rows[j].trip_id = trip_id THEN Some(dest_rows[j])
    ELSE FirstDest(dest_rows, trip_id, j + 1)

\* the for loop over origin_rows, from index i on
RECURSIVE ScanOrigin(_, _, _)
ScanOrigin(origin_rows, dest_rows, i) ==
    IF i > Len(origin_rows)
    THEN [origin_secs |-> Some(int(origin_rows[1].secs)),
          dest_secs   |-> None,
          trip_id     |-> origin_rows[1].trip_id]
    ELSE LET o == origin_rows[i]
             m == FirstDest(dest_rows, o.trip_id, 1)
         IN IF o.trip_id = NoTrip THEN ScanOrigin(origin_rows, dest_rows, i + 1)
            ELSE IF m # None
                 THEN [origin_secs |-> Some(int(o.secs)),
                       dest_secs   |-> Some(int(m[1].secs)),
                       trip_id     |-> o.trip_id]
                 ELSE ScanOrigin(origin_rows, dest_rows, i + 1)

NoMatch == [origin_secs |-> None, dest_secs |-> None, trip_id |-> NoTrip]

\* a plausible slip: the next origin is paired with the next destination
match_first_rows(origin_rows, dest_rows) ==
    IF origin_rows = <<>> THEN NoMatch
    ELSE [origin_secs |-> Some(int(origin_rows[1].secs)),
          dest_secs   |-> IF dest_rows = <<>> THEN None
                          ELSE Some(int(dest_rows[1].secs)),
          trip_id     |-> origin_rows[1].trip_id]

\* a plausible slip: only the next origin prediction is looked up at the
\* destination
match_next_origin_only(origin_rows, dest_rows) ==
    IF origin_rows = <<>> THEN NoMatch
    ELSE ScanOrigin(<< origin_rows[1] >>, dest_rows, 1)

\* a plausible slip: without a matching trip nothing is returned
match_without_fallback(origin_rows, dest_rows) ==
    IF origin_rows = <<>> THEN NoMatch
    ELSE LET found == ScanOrigin(origin_rows, dest_rows, 1)
         IN IF found.dest_secs = None THEN NoMatch ELSE found

\* a plausible slip: a destination ETA smaller than the origin ETA is taken
\* for the wrong direction of travel and dropped
match_drops_earlier_destination(origin_rows, dest_rows) ==
    IF origin_rows = <<>> THEN NoMatch
    ELSE LET found == ScanOrigin(origin_rows, dest_rows, 1)
         IN IF found.dest_secs # None /\ found.dest_secs[1] < found.origin_secs[1]
            THEN [found EXCEPT !.dest_secs = None]
            ELSE found

\* a plausible slip: with no origin prediction the next destination
\* prediction is returned on its own
match_dest_without_origin(origin_rows, dest_rows) ==
    IF origin_rows = <<>>
    THEN IF dest_rows = <<>> THEN NoMatch
         ELSE [origin_secs |-> None,
               dest_secs   |-> Some(int(dest_rows[1].secs)),
               trip_id     |-> dest_rows[1].trip_id]
    ELSE ScanOrigin(origin_rows, dest_rows, 1)

match_origin_dest_by_trip(origin_rows, dest_rows) ==
    IF origin_rows = <<>> THEN NoMatch
    ELSE ScanOrigin(origin_rows, dest_rows, 1)

-----------------------------------------------------------------------------
(* Alert classifier *)

ORIGIN_URGENT_SECS == 30
DEST_URGENT_SECS == 60

\* a plausible slip: the urgent cutoff tested after the STOP bucket
check_origin_alerts_stop_first(origin_secs) ==
    IF origin_secs = None THEN "IDLE"
    ELSE IF origin_secs[1] <= ORIGIN_STOP_THRESHOLD THEN "ORIGIN_STOP"
    ELSE IF origin_secs[1] <= ORIGIN_URGENT_SECS THEN "URGENT"
    ELSE IF origin_secs[1] <= ORIGIN_APPROACH_THRESHOLD THEN "ORIGIN_APPROACH"
    ELSE IF origin_secs[1] <= ORIGIN_NEARBY_THRESHOLD THEN "ORIGIN_NEARBY"
    ELSE "IDLE"

check_origin_alerts(origin_secs) ==
    IF origin_secs = None THEN "IDLE"
    ELSE IF origin_secs[1] <= ORIGIN_URGENT_SECS THEN "URGENT"
    ELSE IF origin_secs[1] <= ORIGIN_STOP_THRESHOLD THEN "ORIGIN_STOP"
    ELSE IF origin_secs[1] <= ORIGIN_APPROACH_THRESHOLD THEN "ORIGIN_APPROACH"
    ELSE IF origin_secs[1] <= ORIGIN_NEARBY_THRESHOLD THEN "ORIGIN_NEARBY"
    ELSE "IDLE"

\* a plausible slip: the APPROACH boundary exclusive
check_dest_alerts_exclusive(dest_secs) ==
    IF dest_secs = None THEN "IDLE"
    ELSE IF dest_secs[1] <= DEST_URGENT_SECS THEN "URGENT"
    ELSE IF dest_secs[1] <= DEST_STOP_THRESHOLD THEN "DEST_STOP"
    ELSE IF dest_secs[1] < DEST_APPROACH_THRESHOLD THEN "DEST_APPROACH"
    ELSE IF dest_secs[1] <= DEST_NEARBY_THRESHOLD THEN "DEST_NEARBY"
    ELSE "IDLE"

check_dest_alerts(dest_secs) ==
    IF dest_secs = None THEN "IDLE"
    ELSE IF dest_secs[1] <= DEST_URGENT_SECS THEN "URGENT"
    ELSE IF dest_secs[1] <= DEST_STOP_THRESHOLD THEN "DEST_STOP"
    ELSE IF dest_secs[1] <= DEST_APPROACH_THRESHOLD THEN "DEST_APPROACH"
    ELSE IF dest_secs[1] <= DEST_NEARBY_THRESHOLD THEN "DEST_NEARBY"
    ELSE "IDLE"

-----------------------------------------------------------------------------
(* Device channel.  A line is [cmd, args]; lines are modelled stripped.    *)
(* The serial handle is "None" or "open" (nothing in the program closes an *)
(* open handle).  dev is what the hardware does while a handler runs:      *)
(* "absent" no port is enumerated, "busy" the port is found and open       *)
(* raises, "mute" the port opens and every write raises, "ready" open and  *)
(* write succeed.                                                          *)

Cmd(name) == [cmd |-> name, args |-> <<>>]
Tone(name, freq_hz, duration_ms) == [cmd |-> name, args |-> <<freq_hz, duration_ms>>]

DeviceStates == {"absent", "busy", "mute", "ready"}

EVENT_LOG_MAX == 200

\* a plausible slip: the slice keeps the head of the list
_log_event_keeps_oldest(log, kind, payload) ==
    LET appended == Append(log, [kind |-> kind, payload |-> payload])
    IN IF Len(appended) > EVENT_LOG_MAX
       THEN SubSeq(appended, 1, EVENT_LOG_MAX)
       ELSE appended

_log_event(log, kind, payload) ==
    LET appended == Append(log, [kind |-> kind, payload |-> payload])
    IN IF Len(appended) > EVENT_LOG_MAX
       THEN SubSeq(appended, Len(appended) - EVENT_LOG_MAX + 1, Len(appended))
       ELSE appended

\* payload {"send": msg_txt} and {"send": msg_txt, "note": note}
Payload(line, note) == [send |-> line, note |-> note]
NoNote == "-"

find_arduino_port(dev) == IF dev = "absent" THEN None ELSE Some("port")

\* returns what connect_to_arduino returns, the handle it leaves, and the
\* hardware calls it made with how they ended
connect_to_arduino(conn, dev) ==
    IF find_arduino_port(dev) = None
    THEN [ok |-> FALSE, conn |-> conn, hw |-> {"comports", "no_port"}]
    ELSE IF dev = "busy"
         THEN [ok |-> FALSE, conn |-> "None",
               hw |-> {"comports", "open", "open_failed"}]
         ELSE [ok |-> TRUE, conn |-> "open",
               hw |-> {"comports", "open", "readline"}]

\* a plausible slip: a send does not reconnect; without an open handle the
\* command is simulated
WriteTry_no_retry(ch, line, dev) ==
    IF SIM_MODE
    THEN [conn |-> ch.conn, sim_last |-> Some(line),
          log |-> _log_event(ch.log, "sim_cmd", Payload(line, NoNote)),
          hw |-> {}, ret |-> "True", exc |-> FALSE]
    ELSE IF ch.conn # "open"
         THEN [conn |-> ch.conn, sim_last |-> Some(line),
               log |-> _log_event(ch.log, "sim_cmd",
                                  Payload(line, "auto-fallback-no-device")),
               hw |-> {}, ret |-> "True", exc |-> FALSE]
         ELSE IF dev = "ready"
              THEN [conn |-> ch.conn, sim_last |-> ch.sim_last,
                    log |-> _log_event(ch.log, "arduino_cmd", Payload(line, NoNote)),
                    hw |-> {"write"}, ret |-> "True", exc |-> FALSE]
              ELSE [conn |-> ch.conn, sim_last |-> ch.sim_last, log |-> ch.log,
                    hw |-> {"write", "write_failed"},
                    ret |-> "raised", exc |-> TRUE]

\* a plausible slip: a failed connect returns False and records nothing
WriteTry_no_fallback(ch, line, dev) ==
    IF SIM_MODE
    THEN [conn |-> ch.conn, sim_last |-> Some(line),
          log |-> _log_event(ch.log, "sim_cmd", Payload(line, NoNote)),
          hw |-> {}, ret |-> "True", exc |-> FALSE]
    ELSE LET c == IF ch.conn = "open"
                  THEN [ok |-> TRUE, conn |-> ch.conn, hw |-> {}]
                  ELSE connect_to_arduino(ch.conn, dev)
         IN IF ~c.ok
            THEN [conn |-> c.conn, sim_last |-> ch.sim_last, log |-> ch.log,
                  hw |-> c.hw, ret |-> "False", exc |-> FALSE]
            ELSE IF dev = "ready"
                 THEN [conn |-> c.conn, sim_last |-> ch.sim_last,
                       log |-> _log_event(ch.log, "arduino_cmd", Payload(line, NoNote)),
                       hw |-> c.hw \cup {"write"}, ret |-> "True", exc |-> FALSE]
                 ELSE [conn |-> c.conn, sim_last |-> ch.sim_last, log |-> ch.log,
                       hw |-> c.hw \cup {"write", "write_failed"},
                       ret |-> "raised", exc |-> TRUE]

\* the try block of _arduino_write: lines 147-166.  exc: an exception left
\* the block
WriteTry(ch, line, dev) ==
    IF SIM_MODE
    THEN [conn |-> ch.conn, sim_last |-> Some(line),
          log |-> _log_event(ch.log, "sim_cmd", Payload(line, NoNote)),
          hw |-> {}, ret |-> "True", exc |-> FALSE]
    ELSE LET c == IF ch.conn = "open"
                  THEN [ok |-> TRUE, conn |-> ch.conn, hw |-> {}]
                  ELSE connect_to_arduino(ch.conn, dev)
         IN IF ~c.ok
            THEN [conn |-> c.conn, sim_last |-> Some(line),
                  log |-> _log_event(ch.log, "sim_cmd",
                                     Payload(line, "auto-fallback-no-device")),
                  hw |-> c.hw, ret |-> "True", exc |-> FALSE]
            ELSE IF dev = "ready"
                 THEN [conn |-> c.conn, sim_last |-> ch.sim_last,
                       log |-> _log_event(ch.log, "arduino_cmd", Payload(line, NoNote)),
                       hw |-> c.hw \cup {"write"}, ret |-> "True", exc |-> FALSE]
                 ELSE [conn |-> c.conn, sim_last |-> ch.sim_last, log |-> ch.log,
                       hw |-> c.hw \cup {"write", "write_failed"},
                       ret |-> "raised", exc |-> TRUE]

\* a plausible slip: the except clause records nothing in the event log
_arduino_write_silent_error(ch, line, dev) ==
    LET t == WriteTry(ch, line, dev)
    IN IF t.exc
       THEN [conn |-> "None", sim_last |-> Some(line), log |-> t.log,
             hw |-> t.hw, ret |-> "True", exc |-> FALSE]
       ELSE t

\* a plausible slip: no except clause, the exception reaches the caller
_arduino_write_no_except(ch, line, dev) == WriteTry(ch, line, dev)

\* a plausible slip: the except clause keeps the broken handle
_arduino_write_keeps_handle(ch, line, dev) ==
    LET t == WriteTry(ch, line, dev)
    IN IF t.exc
       THEN [conn |-> t.conn, sim_last |-> Some(line),
             log |-> _log_event(t.log, "sim_cmd", Payload(line, "auto-fallback-error")),
             hw |-> t.hw, ret |-> "True", exc |-> FALSE]
       ELSE t

_arduino_write(ch, line, dev) ==
    LET t == WriteTry(ch, line, dev)
    IN IF t.exc
       THEN [conn |-> "None", sim_last |-> Some(line),
             log |-> _log_event(t.log, "sim_cmd", Payload(line, "auto-fallback-error")),
             hw |-> t.hw, ret |-> "True", exc |-> FALSE]
       ELSE t

-----------------------------------------------------------------------------
(* Handlers call _arduino_write one call after the other.  A run is the    *)
(* channel as the handler sees it, the calls made so far, and whether an   *)
(* exception is in flight (the statements after it are skipped).           *)

Channel == [conn |-> arduino_connection, sim_last |-> sim_last_cmd, log |-> event_log]

StartRun == [ch |-> Channel, sends |-> <<>>, raised |-> FALSE]

\* one call _arduino_write(line) made on behalf of src
WriteStep(r, src, line, dev, w) ==
    [ch     |-> [conn |-> w.conn, sim_last |-> w.sim_last, log |-> w.log],
     sends  |-> Append(r.sends,
                  [src |-> src, line |-> line,
                   conn_before |-> r.ch.conn, conn_after |-> w.conn,
                   sim_after |-> w.sim_last, ret |-> w.ret, hw |-> w.hw]),
     raised |-> w.exc]

Write(r0, src, line, dev) ==
    CHOOSE out \in { IF r.raised THEN r
                     ELSE CHOOSE o \in { WriteStep(r, src, line, dev, w) :
                                           w \in {_arduino_write(r.ch, line, dev)} } : TRUE
                     : r \in {r0} } : TRUE

\* except Exception: the exception stops here
Caught(r) == [r EXCEPT !.raised = FALSE]

send_alert(r, src, command, dev) == Write(r, src, Cmd(command), dev)

send_urgent_alert(r, src, dev) == send_alert(r, src, "URGENT", dev)

\* a plausible slip: equal ETAs point at the origin
send_led_status_update_origin_on_tie(r, origin_secs, dest_secs, dev) ==
    IF r.raised THEN r
    ELSE Caught(send_alert(r, "led",
            IF origin_secs # None /\ dest_secs # None
            THEN IF origin_secs[1] <= dest_secs[1]
                 THEN "LED_STATUS_ORIGIN" ELSE "LED_STATUS_DEST"
            ELSE IF origin_secs # None THEN "LED_STATUS_ORIGIN"
            ELSE IF dest_secs # None THEN "LED_STATUS_DEST"
            ELSE "LED_STATUS_NONE", dev))

\* a plausible slip: without any ETA no orientation command is sent
send_led_status_update_only_with_eta(r, origin_secs, dest_secs, dev) ==
    IF r.raised \/ (origin_secs = None /\ dest_secs = None) THEN r
    ELSE Caught(send_alert(r, "led",
            IF origin_secs # None /\ dest_secs # None
            THEN IF origin_secs[1] < dest_secs[1]
                 THEN "LED_STATUS_ORIGIN" ELSE "LED_STATUS_DEST"
            ELSE IF origin_secs # None THEN "LED_STATUS_ORIGIN"
            ELSE "LED_STATUS_DEST", dev))

send_led_status_update(r, origin_secs, dest_secs, dev) ==
    IF r.raised THEN r
    ELSE Caught(send_alert(r, "led",
            IF origin_secs # None /\ dest_secs # None
            THEN IF origin_secs[1] < dest_secs[1]
                 THEN "LED_STATUS_ORIGIN" ELSE "LED_STATUS_DEST"
            ELSE IF origin_secs # None THEN "LED_STATUS_ORIGIN"
            ELSE IF dest_secs # None THEN "LED_STATUS_DEST"
            ELSE "LED_STATUS_NONE", dev))

_doorbell(r, src, dev) ==
    IF r.raised THEN r
    ELSE Caught(Write(Write(Write(r, src, Tone("BUZZ", 880, 120), dev),
                            src, Tone("BUZZ", 988, 120), dev),
                      src, Tone("BUZZ", 1175, 180), dev))

\* a plausible slip: a return to IDLE sends nothing
SendLevel_silent_idle(r, side, alert, dev) ==
    IF alert = "URGENT" THEN send_urgent_alert(r, side, dev)
    ELSE IF alert # "IDLE" THEN send_alert(r, side, alert, dev)
    ELSE r

\* the if/elif/else that sends a changed level: lines 358-360 and 367-369
SendLevel(r, side, alert, dev) ==
    IF alert = "URGENT" THEN send_urgent_alert(r, side, dev)
    ELSE IF alert # "IDLE" THEN send_alert(r, side, alert, dev)
    ELSE send_alert(r, side, "IDLE", dev)

\* a plausible slip: the stored level follows only a command that the
\* device took
Dispatch_stores_delivered_only(r, side, alert, last, dev) ==
    IF r.raised \/ alert = last THEN [r |-> r, last |-> last]
    ELSE LET sent == SendLevel(_doorbell(r, "doorbell_" \o side, dev), side, alert, dev)
         IN [r |-> sent,
             last |-> IF sent.raised \/ "write" \notin Last(sent.sends).hw
                         \/ "write_failed" \in Last(sent.sends).hw
                      THEN last ELSE alert]

\* a plausible slip: the level is sent every cycle, changed or not
Dispatch_every_cycle(r, side, alert, last, dev) ==
    LET sent == SendLevel(_doorbell(r, "doorbell_" \o side, dev), side, alert, dev)
    IN [r |-> sent, last |-> IF sent.raised THEN last ELSE alert]

\* a plausible slip: the level command is sent before and after the flourish
Dispatch_level_twice(r, side, alert, last, dev) ==
    IF r.raised \/ alert = last THEN [r |-> r, last |-> last]
    ELSE LET first == SendLevel(r, side, alert, dev)
             sent  == SendLevel(_doorbell(first, "doorbell_" \o side, dev),
                                side, alert, dev)
         IN [r |-> sent, last |-> IF sent.raised THEN last ELSE alert]

\* one side of the change-driven dispatch: lines 356-363 and 365-372.
\* Returns the run and the stored last level of the side.
\* a plausible slip: a side that returns to IDLE stores the level and
\* leaves the device to the other side
Dispatch_quiet_idle(r, side, alert, last, dev) ==
    IF r.raised \/ alert = last THEN [r |-> r, last |-> last]
    ELSE IF alert = "IDLE" THEN [r |-> r, last |-> alert]
    ELSE LET sent == SendLevel(_doorbell(r, "doorbell_" \o side, dev), side, alert, dev)
         IN [r |-> sent, last |-> IF sent.raised THEN last ELSE alert]

Dispatch(r, side, alert, last, dev) ==
    IF r.raised \/ alert = last THEN [r |-> r, last |-> last]
    ELSE LET sent == SendLevel(_doorbell(r, "doorbell_" \o side, dev), side, alert, dev)
         IN [r |-> sent, last |-> IF sent.raised THEN last ELSE alert]

-----------------------------------------------------------------------------
(* The poll thread *)

NEARBY_THRESHOLD_SEC == 180
APPROACH_THRESHOLD_SEC == 300
STOP_THRESHOLD_SEC == 60

\* the UI badge: lines 343-350
Badge(o_secs, d_secs) ==
    IF d_secs # None /\ d_secs[1] <= STOP_THRESHOLD_SEC THEN "STOP"
    ELSE IF d_secs # None /\ d_secs[1] <= APPROACH_THRESHOLD_SEC THEN "APPROACH"
    ELSE IF o_secs # None /\ o_secs[1] <= NEARBY_THRESHOLD_SEC THEN "NEARBY"
    ELSE "IDLE"

HwOf(ss) == UNION {ss[i].hw : i \in 1..Len(ss)}

\* a plausible slip: the startup connect does not look at SIM_MODE
PollStartup_ignores_sim(dev) ==
    /\ pc = "startup"
    /\ LET c == IF arduino_connection # "open"
                THEN connect_to_arduino(arduino_connection, dev)
                ELSE [ok |-> TRUE, conn |-> arduino_connection, hw |-> {}]
       IN /\ arduino_connection' = c.conn
          /\ hw_calls' = hw_calls \cup c.hw
    /\ pc' = "cycle"
    /\ handler' = "startup"
    /\ sends' = <<>>
    /\ UNCHANGED << configVars, sim_last_cmd, event_log, uiVars, cycle,
                    trace, requests, sessions, script, call, threads >>

\* lines 324-326: best-effort connect before the loop
PollStartup(dev) ==
    /\ pc = "startup"
    /\ LET c == IF ~SIM_MODE /\ arduino_connection # "open"
                THEN connect_to_arduino(arduino_connection, dev)
                ELSE [ok |-> TRUE, conn |-> arduino_connection, hw |-> {}]
       IN /\ arduino_connection' = c.conn
          /\ hw_calls' = hw_calls \cup c.hw
    /\ pc' = "cycle"
    /\ handler' = "startup"
    /\ sends' = <<>>
    /\ UNCHANGED << configVars, sim_last_cmd, event_log, uiVars, cycle,
                    trace, requests, sessions, script, call, threads >>

\* a plausible slip: after a failed fetch the cycle goes on with the cached
\* values
FetchAndMatch_keeps_cache(res) ==
    IF res.origin_ok /\ res.dest_ok
    THEN match_origin_dest_by_trip(res.origin_rows, res.dest_rows)
    ELSE [origin_secs |-> last_origin_secs, dest_secs |-> last_dest_secs,
          trip_id |-> last_trip_id]

\* match_origin_dest_by_trip with its two fetches: a fetch that fails raises
\* out of it, and the poll loop then takes (None, None, None)
FetchAndMatch(res) ==
    IF res.origin_ok /\ res.dest_ok
    THEN match_origin_dest_by_trip(res.origin_rows, res.dest_rows)
    ELSE NoMatch

\* a plausible slip: no except clause around the cycle, so a failed fetch
\* or an exception of the dispatch ends the thread
PollNextPc_unguarded(res, raised) ==
    IF res.origin_ok /\ res.dest_ok /\ ~raised THEN "sleep" ELSE "dead"

\* where the thread goes after the cycle body: both except clauses (lines
\* 333-335 and 378-379) fall through to the sleep of line 381
PollNextPc(res, raised) == "sleep"

\* one pass through the body of the while loop: lines 329-379.  (Each local
\* of the loop body is bound once, as the one element of a set.)
PollCycle(res, dev) ==
    /\ pc = "cycle"
    /\ \E m \in {FetchAndMatch(res)} :
       \E origin_alert \in {check_origin_alerts(m.origin_secs)} :
       \E dest_alert \in {check_dest_alerts(m.dest_secs)} :
       \E o \in {Dispatch(StartRun, "origin", origin_alert, last_origin_alert, dev)} :
       \E d \in {Dispatch(o.r, "dest", dest_alert, last_dest_alert, dev)} :
       \E r \in {send_led_status_update(d.r, m.origin_secs, m.dest_secs, dev)} :
          /\ last_origin_secs' = m.origin_secs
          /\ last_dest_secs' = m.dest_secs
          /\ last_trip_id' = m.trip_id
          /\ last_updated_iso' = Some(cycle + 1)
          /\ current_status' = Badge(m.origin_secs, m.dest_secs)
          /\ last_origin_alert' = o.last
          /\ last_dest_alert' = d.last
          /\ arduino_connection' = r.ch.conn
          /\ sim_last_cmd' = r.ch.sim_last
          /\ event_log' = r.ch.log
          /\ sends' = r.sends
          /\ hw_calls' = hw_calls \cup HwOf(r.sends)
          /\ trace' = Append(trace,
                        [fetch_ok |-> res.origin_ok /\ res.dest_ok,
                         failed |-> IF res.origin_ok /\ res.dest_ok
                                    THEN <<>> ELSE <<res>>,
                         o_secs |-> m.origin_secs, d_secs |-> m.dest_secs,
                         prev_origin |-> last_origin_alert,
                         prev_dest |-> last_dest_alert,
                         origin_alert |-> origin_alert, dest_alert |-> dest_alert,
                         log_len |-> Len(event_log),
                         sent |-> r.sends])
          /\ pc' = PollNextPc(res, d.r.raised)
    /\ cycle' = cycle + 1
    /\ handler' = "poll_cycle"
    /\ UNCHANGED << configVars, requests, sessions, script, call, threads >>

\* line 381: time.sleep(POLL_INTERVAL) returns and the loop goes round
PollSleep ==
    /\ pc = "sleep"
    /\ pc' = "cycle"
    /\ UNCHANGED << configVars, channelVars, uiVars, cycle, handler, sends,
                    hw_calls, trace, requests, sessions, script, call, threads >>

-----------------------------------------------------------------------------
(* The request path: POST /buzz and POST /selftest *)

\* str.upper() on the command texts of the model
Upper(text) ==
    CASE text = "idle" -> "IDLE"
      [] text = "stop" -> "STOP"
      [] text = "dest_stop" -> "DEST_STOP"
      [] text = "origin_foo" -> "ORIGIN_FOO"
      [] OTHER -> text

\* str.startswith
StartsWith(text, prefix) ==
    Len(text) >= Len(prefix) /\ SubSeq(text, 1, Len(prefix)) = prefix

\* cmd.startswith("ORIGIN_") or cmd.startswith("DEST_")
HasSidePrefix(cmd) == StartsWith(cmd, "ORIGIN_") \/ StartsWith(cmd, "DEST_")

ExtendedCommands ==
    {"URGENT", "IDLE", "STATUS_UPDATE",
     "LED_STATUS_ORIGIN", "LED_STATUS_DEST", "LED_STATUS_NONE"}

LegacyCommands == {"NEARBY", "APPROACH", "STOP", "IDLE"}

\* the values a JSON body gives a key: a number, a string, null
JsonNumber(n) == [json |-> "number", n |-> n, text |-> ""]
JsonString(text) == [json |-> "string", n |-> 0, text |-> text]
JsonNull == [json |-> "null", n |-> 0, text |-> ""]

\* int(value): the number, the number a string of digits spells, None when
\* int raises
PyInt(value) ==
    CASE value.json = "number" -> Some(value.n)
      [] value.json = "string" /\ value.text = "1200" -> Some(1200)
      [] OTHER -> None

\* the line /buzz hands to _arduino_write, None when it answers 400
BuzzLine(data) ==
    IF data.freq_hz # None /\ data.duration_ms # None
    THEN LET freq == PyInt(data.freq_hz[1])
             dur  == PyInt(data.duration_ms[1])
         IN IF freq = None \/ dur = None THEN None
            ELSE Some(Tone("BUZZ", freq[1], dur[1]))
    ELSE LET cmd   == Upper(data.command)
             scope == data.scope
         IN IF cmd = "" THEN None
            ELSE IF HasSidePrefix(cmd) \/ cmd \in ExtendedCommands
                 THEN Some(Cmd(cmd))
            ELSE IF cmd \in LegacyCommands
                 THEN Some(Cmd(IF cmd = "IDLE" THEN "IDLE"
                               ELSE (IF scope # "dest" THEN "ORIGIN" ELSE "DEST")
                                    \o "_" \o cmd))
            ELSE None

Body(freq_hz, duration_ms, command, scope) ==
    [freq_hz |-> freq_hz, duration_ms |-> duration_ms, command |-> command,
     scope |-> scope]

\* the request bodies of the model
BuzzBodies ==
    { Body(Some(JsonNumber(1200)), Some(JsonNumber(400)), "", "origin"),
      Body(Some(JsonString("1200")), Some(JsonNumber(400)), "", "origin"),
      Body(Some(JsonString("loud")), Some(JsonNumber(400)), "", "origin"),
      Body(Some(JsonNull), Some(JsonNumber(400)), "", "origin"),
      Body(None, None, "idle", "origin"),
      Body(None, None, "stop", "dest"),
      Body(None, None, "URGENT", "origin"),
      Body(None, None, "ORIGIN_NEARBY", "origin"),
      Body(None, None, "origin_foo", "origin"),
      Body(None, None, "bogus", "origin"),
      Body(None, None, "", "origin") }

\* the channel and the observations after a request handler's run
Served(r, name) ==
    /\ arduino_connection' = r.ch.conn
    /\ sim_last_cmd' = r.ch.sim_last
    /\ event_log' = r.ch.log
    /\ sends' = r.sends
    /\ hw_calls' = hw_calls \cup HwOf(r.sends)
    /\ handler' = name

\* a plausible slip: an injected command becomes the stored origin level
buzz_stores_level(data, dev) ==
    /\ \E line \in {BuzzLine(data)} :
       \E r \in {IF line = None THEN StartRun
                 ELSE Caught(Write(StartRun, "buzz", line[1], dev))} :
          /\ Served(r, "buzz")
          /\ last_origin_alert' = IF line = None THEN last_origin_alert ELSE line[1].cmd
    /\ requests' = requests + 1
    /\ UNCHANGED << configVars, current_status, last_origin_secs, last_dest_secs,
                    last_trip_id, last_updated_iso, last_dest_alert, pc, cycle, trace,
                    sessions, script, call, threads >>

\* lines 486-527
buzz(data, dev) ==
    /\ \E line \in {BuzzLine(data)} :
       \E r \in {IF line = None THEN StartRun
                 ELSE Caught(Write(StartRun, "buzz", line[1], dev))} :
          Served(r, "buzz")
    /\ requests' = requests + 1
    /\ UNCHANGED << configVars, uiVars, pc, cycle, trace, sessions, script, call,
                    threads >>

\* _arduino_write for each of lines, in order
RECURSIVE WriteAll(_, _, _, _)
WriteAll(r, src, lines, dev) ==
    IF lines = <<>> THEN r
    ELSE WriteAll(Write(r, src, Head(lines), dev), src, Tail(lines), dev)

\* lines 471-474 and 481-483
SelftestLines ==
    << Cmd("ORIGIN_NEARBY"), Cmd("ORIGIN_APPROACH"), Cmd("ORIGIN_STOP"),
       Cmd("DEST_NEARBY"), Cmd("DEST_APPROACH"), Cmd("DEST_STOP"),
       Tone("BUZZ", 880, 150), Tone("BUZZ", 988, 150), Tone("BUZZ", 1175, 250) >>

\* lines 468-484
selftest(dev) ==
    /\ \E r \in {WriteAll(StartRun, "selftest", SelftestLines, dev)} :
          Served(r, "selftest")
    /\ requests' = requests + 1
    /\ UNCHANGED << configVars, uiVars, pc, cycle, trace, sessions, script, call,
                    threads >>

-----------------------------------------------------------------------------
(* The KeyRoute session endpoints and their cues *)

\* Session.__init__, lines 390-402: the fields the cues depend on
Session ==
    [state |-> "AWAITING_BOARD", trip_id |-> NoTrip, last_emitted_state |-> "None"]

\* the two lines of a transition, lines 413-428
CueLines(new_state) ==
    CASE new_state = "AWAITING_BOARD" -> << Cmd("ORIGIN_NEARBY"), Tone("BUZZ", 800, 60) >>
      [] new_state = "ONBOARD" -> << Cmd("IDLE"), Tone("BUZZ", 600, 40) >>
      [] new_state = "APPROACHING_DEST" -> << Cmd("DEST_APPROACH"), Tone("BUZZ", 1000, 150) >>
      [] new_state = "ARRIVED" -> << Cmd("DEST_STOP"), Tone("BUZZ", 1200, 350) >>
      [] OTHER -> <<>>

\* a plausible slip: the cue is sent whether or not the state was emitted
\* before
emit_state_change_every_call(e, new_state, dev) ==
    [r |-> WriteAll(e.r, "session", CueLines(new_state), dev),
     session |-> [e.session EXCEPT !.last_emitted_state = new_state]]

\* lines 406-428, on the run e.r and the session e.session
emit_state_change(e, new_state, dev) ==
    IF e.session.last_emitted_state = new_state THEN e
    ELSE [r |-> WriteAll(e.r, "session", CueLines(new_state), dev),
          session |-> [e.session EXCEPT !.last_emitted_state = new_state]]

\* what a session endpoint leaves alone (requests and call are kept by the
\* run the endpoint is part of)
sessionUnchanged ==
    << configVars, uiVars, pc, cycle, trace, script, threads >>

\* lines 553-564
create_session(dev) ==
    /\ Len(sessions) < MaxSessions
    /\ \E e \in {emit_state_change([r |-> StartRun, session |-> Session],
                                   Session.state, dev)} :
          /\ sessions' = Append(sessions, e.session)
          /\ Served(e.r, "create_session")
    /\ UNCHANGED sessionUnchanged

\* lines 611-620
board_trip(id, trip_id, dev) ==
    /\ id \in DOMAIN sessions
    /\ \E s \in {[sessions[id] EXCEPT !.trip_id = trip_id, !.state = "ONBOARD"]} :
       \E e \in {emit_state_change([r |-> StartRun, session |-> s], s.state, dev)} :
          /\ sessions' = [sessions EXCEPT ![id] = e.session]
          /\ Served(e.r, "board_trip")
    /\ UNCHANGED sessionUnchanged

\* a plausible slip: the two tests of lines 668 and 671 chained with elif,
\* so that one call makes one transition
progress_one_transition(id, eta_dest, dev) ==
    /\ id \in DOMAIN sessions
    /\ \E s0 \in {sessions[id]} :
       \E e2 \in {IF s0.state = "ONBOARD" /\ eta_dest <= 240
                  THEN emit_state_change(
                          [r |-> StartRun,
                           session |-> [s0 EXCEPT !.state = "APPROACHING_DEST"]],
                          "APPROACHING_DEST", dev)
                  ELSE IF s0.state = "APPROACHING_DEST" /\ eta_dest = 0
                  THEN emit_state_change(
                          [r |-> StartRun,
                           session |-> [s0 EXCEPT !.state = "ARRIVED"]],
                          "ARRIVED", dev)
                  ELSE [r |-> StartRun, session |-> s0]} :
          /\ sessions' = [sessions EXCEPT ![id] = e2.session]
          /\ Served(e2.r, "progress")
    /\ UNCHANGED sessionUnchanged

\* lines 648-680; eta_dest is what eta_for_trip_to_stop or the fallback of
\* lines 663-665 gives after boarding
progress(id, eta_dest, dev) ==
    /\ id \in DOMAIN sessions
    /\ \E s0 \in {sessions[id]} :
       \E e1 \in {IF s0.state = "ONBOARD" /\ eta_dest <= 240
                  THEN emit_state_change(
                          [r |-> StartRun,
                           session |-> [s0 EXCEPT !.state = "APPROACHING_DEST"]],
                          "APPROACHING_DEST", dev)
                  ELSE [r |-> StartRun, session |-> s0]} :
       \E e2 \in {IF /\ s0.state # "AWAITING_BOARD"
                     /\ eta_dest = 0
                     /\ e1.session.state \in {"ONBOARD", "APPROACHING_DEST"}
                  THEN emit_state_change(
                          [e1 EXCEPT !.session.state = "ARRIVED"], "ARRIVED", dev)
                  ELSE e1} :
          /\ sessions' = [sessions EXCEPT ![id] = e2.session]
          /\ Served(e2.r, "progress")
    /\ UNCHANGED sessionUnchanged

-----------------------------------------------------------------------------
(* Initial states and specifications *)

\* threads, in the runs whose handlers are atomic
NoThreads == <<>>

\* call, while no pure function is being looked at; result is <<>> until
\* the function has returned
NoCall == [fn |-> "none", args |-> <<>>, result |-> <<>>]

\* the defaults of lines 37-43
DefaultThresholds ==
    /\ ORIGIN_NEARBY_THRESHOLD = 300
    /\ ORIGIN_APPROACH_THRESHOLD = 120
    /\ ORIGIN_STOP_THRESHOLD = 60
    /\ DEST_NEARBY_THRESHOLD = 600
    /\ DEST_APPROACH_THRESHOLD = 300
    /\ DEST_STOP_THRESHOLD = 120

\* the module globals as the import leaves them: lines 28-65
Globals ==
    /\ arduino_connection = "None"
    /\ sim_last_cmd = None
    /\ event_log = <<>>
    /\ current_status = "IDLE"
    /\ last_origin_secs = None
    /\ last_dest_secs = None
    /\ last_trip_id = NoTrip
    /\ last_updated_iso = None
    /\ last_origin_alert = "IDLE"
    /\ last_dest_alert = "IDLE"
    /\ pc = "startup"
    /\ cycle = 0
    /\ handler = "none"
    /\ sends = <<>>
    /\ hw_calls = {}
    /\ trace = <<>>
    /\ requests = 0
    /\ sessions = <<>>

Init ==
    /\ SIM_MODE \in BOOLEAN
    /\ DefaultThresholds
    /\ Globals
    /\ threads = NoThreads
    /\ script = <<>>
    /\ call = NoCall

\* a prediction row whose ETA is secs and a fraction of a second
Row(secs, trip_id) ==
    [secs |-> secs * TicksPerSec + 1, trip_id |-> trip_id, direction_id |-> 0]

Fetched(origin_rows, dest_rows) ==
    [origin_ok |-> TRUE, dest_ok |-> TRUE,
     origin_rows |-> origin_rows, dest_rows |-> dest_rows]

\* what the two fetches of a cycle can bring
OriginFetches == { <<>>, <<Row(400, "A")>>, <<Row(200, "A")>>, <<Row(25, "A")>> }
DestFetches == { <<>>, <<Row(500, "A")>>, <<Row(50, "A")>>, <<Row(50, "B")>> }

\* a cycle in which the fetch of the origin stop, of the destination stop
\* or of both raises
FetchFailures ==
    { [origin_ok |-> FALSE, dest_ok |-> TRUE, origin_rows |-> <<>>, dest_rows |-> <<>>],
      [origin_ok |-> TRUE, dest_ok |-> FALSE, origin_rows |-> <<Row(25, "A")>>, dest_rows |-> <<>>],
      [origin_ok |-> FALSE, dest_ok |-> FALSE, origin_rows |-> <<>>, dest_rows |-> <<>>] }

FetchResults ==
    { Fetched(o, d) : o \in OriginFetches, d \in DestFetches } \cup FetchFailures

Next ==
    \/ \E dev \in DeviceStates : PollStartup(dev)
    \/ cycle < MaxCycles /\ \E res \in FetchResults, dev \in DeviceStates : PollCycle(res, dev)
    \/ PollSleep

Spec == Init /\ [][Next]_vars

\* the poll thread and the request path side by side
\* what the fetches of these runs bring: nothing, a trip near the origin,
\* the same trip at the origin, and a failure
ApiFetches ==
    { Fetched(<<>>, <<>>),
      Fetched(<<Row(200, "A")>>, <<Row(500, "A")>>),
      Fetched(<<Row(25, "A")>>, <<Row(500, "A")>>),
      [origin_ok |-> FALSE, dest_ok |-> FALSE, origin_rows |-> <<>>, dest_rows |-> <<>>] }

\* the device stays plugged in and takes every write in these runs, which
\* interleave the poll loop with the requests; with SIM_MODE set it is not
\* touched.  A session is boarded once, and requests counts the manual
\* injections
ApiDevices == {"ready"}

TripIds == {"A"}

\* the ETAs to the destination /progress works with: far, within the 240 s
\* of line 668, arrived
ProgressEtas == {1000, 200, 0}

NextApi ==
    \/ \E dev \in ApiDevices : PollStartup(dev)
    \/ cycle < MaxCycles /\ \E res \in ApiFetches, dev \in ApiDevices : PollCycle(res, dev)
    \/ PollSleep
    \/ requests < MaxRequests /\ \E data \in BuzzBodies, dev \in ApiDevices : buzz(data, dev)
    \/ requests < MaxRequests /\ \E dev \in ApiDevices : selftest(dev)
    \/ \E dev \in ApiDevices : create_session(dev) /\ UNCHANGED << requests, call >>
    \/ \E id \in DOMAIN sessions, trip_id \in TripIds, dev \in ApiDevices :
          /\ sessions[id].trip_id = NoTrip
          /\ board_trip(id, trip_id, dev)
          /\ UNCHANGED << requests, call >>
    \/ \E id \in DOMAIN sessions, eta_dest \in ProgressEtas, dev \in ApiDevices :
          progress(id, eta_dest, dev) /\ UNCHANGED << requests, call >>

SpecApi == Init /\ [][NextApi]_vars

-----------------------------------------------------------------------------
(* The poll loop under a weakly fair scheduler: the thread is a daemon     *)
(* thread that the interpreter keeps scheduling, every fetch carries a     *)
(* timeout, and time.sleep returns.                                        *)

SpecLive == Init /\ [][Next]_vars /\ WF_vars(Next)

-----------------------------------------------------------------------------
(* Scenario runs: the poll loop replays a script of fetch results.         *)

OriginOnly(secs) == Fetched(<<Row(secs, "A")>>, <<>>)
Both(o_secs, d_secs) == Fetched(<<Row(o_secs, "A")>>, <<Row(d_secs, "A")>>)

\* origin ETAs 400, 290, 110, 25 and no destination prediction
OriginScript == << OriginOnly(400), OriginOnly(290), OriginOnly(110), OriginOnly(25) >>

\* both sides move, then the fetch fails
BothScript ==
    << OriginOnly(400), Both(290, 700), Both(110, 500), Both(25, 100),
       [origin_ok |-> FALSE, dest_ok |-> TRUE, origin_rows |-> <<>>, dest_rows |-> <<>>] >>

\* both sides go through STOP and APPROACH levels, become urgent, and the
\* predictions end
LevelsScript == << Both(50, 250), Both(25, 50), Fetched(<<>>, <<>>) >>

Scripts == { OriginScript, BothScript, LevelsScript }

ScenarioInit ==
    /\ SIM_MODE \in BOOLEAN
    /\ DefaultThresholds
    /\ Globals
    /\ threads = NoThreads
    /\ script \in Scripts
    /\ call = NoCall

ScenarioNext ==
    \/ \E dev \in DeviceStates : PollStartup(dev)
    \/ cycle < Len(script) /\ \E dev \in DeviceStates : PollCycle(script[cycle + 1], dev)
    \/ PollSleep

SpecScenario == ScenarioInit /\ [][ScenarioNext]_vars

-----------------------------------------------------------------------------
(* The trip correlator on its own: every pair of prediction lists the      *)
(* fetches can return, up to MaxRows rows each.                            *)

MatchSecs == { 1, 3 * TicksPerSec }
MatchTrips == { NoTrip, "A", "B" }
MatchRows == [secs : MatchSecs, trip_id : MatchTrips, direction_id : {0, 1}]

\* _normalize_predictions returns its rows sorted by secs (line 270)
IsSorted(rows) == \A i, j \in 1..Len(rows) : i < j => rows[i].secs <= rows[j].secs

RowLists == { rows \in UNION { [1..n -> MatchRows] : n \in 0..MaxRows } : IsSorted(rows) }

\* one origin prediction of trip A 200 s away, one destination prediction
\* of trip B 500 s away
OriginOfTripA == << [secs |-> 200 * TicksPerSec, trip_id |-> "A", direction_id |-> 0] >>
DestOfTripB == << [secs |-> 500 * TicksPerSec, trip_id |-> "B", direction_id |-> 0] >>

MatchInit ==
    /\ SIM_MODE = FALSE
    /\ DefaultThresholds
    /\ Globals
    /\ threads = NoThreads
    /\ script = <<>>
    /\ \E origin_rows \in RowLists \cup {OriginOfTripA},
          dest_rows \in RowLists \cup {DestOfTripB} :
          call = [fn |-> "match_origin_dest_by_trip",
                  args |-> <<origin_rows, dest_rows>>, result |-> <<>>]

Match ==
    /\ call.fn = "match_origin_dest_by_trip"
    /\ call.result = <<>>
    /\ call' = [call EXCEPT !.result =
                    << match_origin_dest_by_trip(call.args[1], call.args[2]) >>]
    /\ UNCHANGED << configVars, channelVars, uiVars, pc, cycle, handler, sends,
                    hw_calls, trace, requests, sessions, script, threads >>

SpecMatch == MatchInit /\ [][Match]_vars

-----------------------------------------------------------------------------
(* The classifier on its own: every setting of one side's thresholds,      *)
(* ordered or not, against the ETAs around every threshold.                *)

OriginThresholdValues == { 20, 45, 60, 120, 300 }
DestThresholdValues == { 40, 90, 120, 300, 600 }

Around(values) == UNION { {v - 1, v, v + 1} : v \in values }

EtaInputs ==
    { None } \cup
    { Some(v) : v \in {0} \cup Around(OriginThresholdValues \cup DestThresholdValues
                                      \cup {ORIGIN_URGENT_SECS, DEST_URGENT_SECS}) }

ClassifyInit ==
    /\ SIM_MODE = FALSE
    /\ \/ /\ ORIGIN_STOP_THRESHOLD \in OriginThresholdValues
          /\ ORIGIN_APPROACH_THRESHOLD \in OriginThresholdValues
          /\ ORIGIN_NEARBY_THRESHOLD \in OriginThresholdValues
          /\ DEST_NEARBY_THRESHOLD = 600
          /\ DEST_APPROACH_THRESHOLD = 300
          /\ DEST_STOP_THRESHOLD = 120
       \/ /\ ORIGIN_NEARBY_THRESHOLD = 300
          /\ ORIGIN_APPROACH_THRESHOLD = 120
          /\ ORIGIN_STOP_THRESHOLD = 60
          /\ DEST_STOP_THRESHOLD \in DestThresholdValues
          /\ DEST_APPROACH_THRESHOLD \in DestThresholdValues
          /\ DEST_NEARBY_THRESHOLD \in DestThresholdValues
    /\ Globals
    /\ threads = NoThreads
    /\ script = <<>>
    /\ \E fn \in {"check_origin_alerts", "check_dest_alerts"}, eta \in EtaInputs :
          call = [fn |-> fn, args |-> <<eta>>, result |-> <<>>]

ClassifyOrigin ==
    /\ call.fn = "check_origin_alerts"
    /\ call.result = <<>>
    /\ call' = [call EXCEPT !.result = << check_origin_alerts(call.args[1]) >>]
    /\ UNCHANGED << configVars, channelVars, uiVars, pc, cycle, handler, sends,
                    hw_calls, trace, requests, sessions, script, threads >>

ClassifyDest ==
    /\ call.fn = "check_dest_alerts"
    /\ call.result = <<>>
    /\ call' = [call EXCEPT !.result = << check_dest_alerts(call.args[1]) >>]
    /\ UNCHANGED << configVars, channelVars, uiVars, pc, cycle, handler, sends,
                    hw_calls, trace, requests, sessions, script, threads >>

ClassifyNext == ClassifyOrigin \/ ClassifyDest

SpecClassify == ClassifyInit /\ [][ClassifyNext]_vars

-----------------------------------------------------------------------------
(* Claims about the trip correlator (SpecMatch) *)

Returned == call.fn = "match_origin_dest_by_trip" /\ call.result # <<>>
MatchResult == call.result[1]
OriginArg == call.args[1]
DestArg == call.args[2]

\* C1: whenever match_origin_dest_by_trip returns a destination ETA, that ETA
\* is the ETA of a destination prediction whose trip_id is the returned
\* trip_id, the returned trip_id is not None, and the returned origin ETA is
\* the ETA of an origin prediction with that same trip_id: the ETAs of two
\* different trips are never paired.
C1_NeverPairsMismatchedTrips ==
    (Returned /\ MatchResult.dest_secs # None) =>
        /\ MatchResult.trip_id # NoTrip
        /\ \E j \in 1..Len(DestArg) :
              /\ DestArg[j].trip_id = MatchResult.trip_id
              /\ MatchResult.dest_secs = Some(int(DestArg[j].secs))
        /\ \E i \in 1..Len(OriginArg) :
              /\ OriginArg[i].trip_id = MatchResult.trip_id
              /\ MatchResult.origin_secs = Some(int(OriginArg[i].secs))

\* a destination ETA is returned although the first origin row and the first
\* destination row belong to other trips than the matched one
C1_Witness ==
    /\ Returned
    /\ MatchResult.dest_secs # None
    /\ Len(OriginArg) = 2 /\ Len(DestArg) = 2
    /\ OriginArg[1].trip_id # MatchResult.trip_id
    /\ DestArg[1].trip_id \notin {MatchResult.trip_id, NoTrip}
    /\ DestArg[1].secs < DestArg[2].secs

-----------------------------------------------------------------------------
(* Claims about the classifier (SpecClassify) *)

Classified(fn) == call.fn = fn /\ call.result # <<>>
Eta == call.args[1]
Level == call.result[1]

\* C4: for every non-null ETA and every setting of the STOP, APPROACH and
\* NEARBY thresholds, misordered ones included, check_origin_alerts returns
\* URGENT whenever the ETA is at most 30 and check_dest_alerts returns URGENT
\* whenever the ETA is at most 60.
C4_UrgentNeverShadowed ==
    /\ (Classified("check_origin_alerts") /\ Eta # None /\ Eta[1] <= 30)
          => Level = "URGENT"
    /\ (Classified("check_dest_alerts") /\ Eta # None /\ Eta[1] <= 60)
          => Level = "URGENT"

\* an origin ETA of exactly 30 under misordered thresholds: the ETA is inside
\* the STOP bucket, and the APPROACH threshold is below the urgent cutoff
C4_Witness ==
    /\ Classified("check_origin_alerts")
    /\ Eta = Some(30)
    /\ ORIGIN_STOP_THRESHOLD = 45
    /\ ORIGIN_APPROACH_THRESHOLD = 20
    /\ Level = "URGENT"

\* the level of the reference cascade, bucket by bucket
ReferenceLevel(eta, side, t_urgent, t_stop, t_approach, t_nearby) ==
    IF eta = None THEN "IDLE"
    ELSE CASE eta[1] <= t_urgent -> "URGENT"
           [] t_urgent < eta[1] /\ eta[1] <= t_stop -> side \o "_STOP"
           [] t_stop < eta[1] /\ eta[1] <= t_approach -> side \o "_APPROACH"
           [] t_approach < eta[1] /\ eta[1] <= t_nearby -> side \o "_NEARBY"
           [] t_nearby < eta[1] -> "IDLE"

Ordered(t_urgent, t_stop, t_approach, t_nearby) ==
    t_urgent < t_stop /\ t_stop < t_approach /\ t_approach < t_nearby

\* C5: with ordered thresholds t_urgent < t_stop < t_approach < t_nearby the
\* two classifiers return the level of the reference cascade for every
\* input: None gives IDLE, eta <= t_urgent URGENT, then <SIDE>_STOP up to
\* t_stop, <SIDE>_APPROACH up to t_approach, <SIDE>_NEARBY up to t_nearby,
\* IDLE beyond; every boundary is inclusive.
C5_MatchesReferenceCascade ==
    /\ (/\ Classified("check_origin_alerts")
        /\ Ordered(30, ORIGIN_STOP_THRESHOLD, ORIGIN_APPROACH_THRESHOLD,
                   ORIGIN_NEARBY_THRESHOLD))
          => Level = ReferenceLevel(Eta, "ORIGIN", 30, ORIGIN_STOP_THRESHOLD,
                                    ORIGIN_APPROACH_THRESHOLD, ORIGIN_NEARBY_THRESHOLD)
    /\ (/\ Classified("check_dest_alerts")
        /\ Ordered(60, DEST_STOP_THRESHOLD, DEST_APPROACH_THRESHOLD,
                   DEST_NEARBY_THRESHOLD))
          => Level = ReferenceLevel(Eta, "DEST", 60, DEST_STOP_THRESHOLD,
                                    DEST_APPROACH_THRESHOLD, DEST_NEARBY_THRESHOLD)

\* a destination ETA exactly on the APPROACH threshold of an ordered setting
\* other than the default
C5_Witness ==
    /\ Classified("check_dest_alerts")
    /\ Ordered(60, DEST_STOP_THRESHOLD, DEST_APPROACH_THRESHOLD, DEST_NEARBY_THRESHOLD)
    /\ DEST_STOP_THRESHOLD = 90
    /\ Eta = Some(DEST_APPROACH_THRESHOLD)
    /\ Level = "DEST_APPROACH"

-----------------------------------------------------------------------------
(* Claims about the dispatch of the poll loop *)

\* the latest completed cycle; the state is the one the cycle left while
\* the latest handler is the poll cycle
LastCycle == trace[Len(trace)]
AfterCycle == handler = "poll_cycle" /\ trace # <<>>

FromSources(ss, srcs) == SelectSeq(ss, LAMBDA x : x.src \in srcs)
Lines(ss) == [i \in 1..Len(ss) |-> ss[i].line]

\* C2: in a cycle where a side's classified level equals the stored last
\* level of that side, no alert-level command is sent for that side and the
\* stored level stays as it was; a cycle that repeats the stored levels on
\* both sides lengthens the event log by at most one entry.
C2_UnchangedLevelIsNoOp ==
    AfterCycle =>
        LET c == LastCycle
        IN /\ c.origin_alert = c.prev_origin =>
                 /\ FromSources(c.sent, {"origin"}) = <<>>
                 /\ last_origin_alert = c.prev_origin
           /\ c.dest_alert = c.prev_dest =>
                 /\ FromSources(c.sent, {"dest"}) = <<>>
                 /\ last_dest_alert = c.prev_dest
           /\ (c.origin_alert = c.prev_origin /\ c.dest_alert = c.prev_dest) =>
                 Len(event_log) <= c.log_len + 1

\* a second cycle that repeats non-idle levels on both sides
C2_Witness ==
    /\ AfterCycle
    /\ Len(trace) = 2
    /\ LastCycle.origin_alert = "ORIGIN_NEARBY" /\ LastCycle.prev_origin = "ORIGIN_NEARBY"
    /\ LastCycle.dest_alert = "URGENT" /\ LastCycle.prev_dest = "URGENT"
    /\ Len(event_log) = LastCycle.log_len + 1

Sides == {"origin", "dest"}
NewLevel(c, side) == IF side = "origin" THEN c.origin_alert ELSE c.dest_alert
OldLevel(c, side) == IF side = "origin" THEN c.prev_origin ELSE c.prev_dest
\* everything the dispatch of one side handed to the device channel
DispatchedFor(c, side) == FromSources(c.sent, {side, "doorbell_" \o side})

OriginLevels == [i \in 1..Len(trace) |-> trace[i].origin_alert]
RECURSIVE AllSent(_)
AllSent(n) == IF n = 0 THEN <<>> ELSE AllSent(n - 1) \o trace[n].sent

ScenarioDone == script = OriginScript /\ Len(trace) = 4

\* C3 as claimed: each change of a side's level emits exactly one device
\* command, and the origin ETAs 400, 290, 110, 25 give the levels IDLE,
\* ORIGIN_NEARBY, ORIGIN_APPROACH, URGENT with exactly three commands
\* emitted by the dispatch.
C3_OneCommandPerChange ==
    /\ \A n \in 1..Len(trace), side \in Sides :
          NewLevel(trace[n], side) # OldLevel(trace[n], side)
              => Len(DispatchedFor(trace[n], side)) = 1
    /\ ScenarioDone =>
          /\ OriginLevels = <<"IDLE", "ORIGIN_NEARBY", "ORIGIN_APPROACH", "URGENT">>
          /\ Len(FromSources(AllSent(4), {"origin", "doorbell_origin",
                                          "dest", "doorbell_dest"})) = 3

DoorbellLines == << Tone("BUZZ", 880, 120), Tone("BUZZ", 988, 120), Tone("BUZZ", 1175, 180) >>

\* C3, amended: each change of a side's level emits exactly one alert-level
\* command for that side, after the three BUZZ lines of the doorbell
\* flourish (four device commands per change), and an unchanged level emits
\* none; the origin ETAs 400, 290, 110, 25 under the default thresholds,
\* starting from IDLE, give the levels IDLE, ORIGIN_NEARBY, ORIGIN_APPROACH,
\* URGENT with exactly three alert-level commands (ORIGIN_NEARBY,
\* ORIGIN_APPROACH, URGENT) and nine BUZZ lines.
C3_OneLevelCommandPerChange ==
    /\ \A n \in 1..Len(trace), side \in Sides :
          LET c == trace[n]
          IN IF NewLevel(c, side) # OldLevel(c, side)
             THEN /\ Lines(DispatchedFor(c, side)) =
                        DoorbellLines \o << Cmd(NewLevel(c, side)) >>
                  /\ Lines(FromSources(c.sent, {side})) =
                        << Cmd(NewLevel(c, side)) >>
             ELSE DispatchedFor(c, side) = <<>>
    /\ ScenarioDone =>
          /\ OriginLevels = <<"IDLE", "ORIGIN_NEARBY", "ORIGIN_APPROACH", "URGENT">>
          /\ Lines(FromSources(AllSent(4), {"origin", "dest"})) =
                << Cmd("ORIGIN_NEARBY"), Cmd("ORIGIN_APPROACH"), Cmd("URGENT") >>
          /\ Len(FromSources(AllSent(4), {"doorbell_origin", "doorbell_dest"})) = 9

\* the scenario has run to its end and the stored level is URGENT
C3_Witness ==
    /\ ScenarioDone
    /\ last_origin_alert = "URGENT"
    /\ [i \in 1..4 |-> trace[i].o_secs] = << Some(400), Some(290), Some(110), Some(25) >>

-----------------------------------------------------------------------------
(* Claims about the device channel.  sends are the calls of _arduino_write *)
(* made by the latest handler, and each call appends one entry, so the     *)
(* entry of call i is the one Len(sends) - i places before the end.        *)

Calls == 1..Len(sends)
EntryOf(i) == event_log[Len(event_log) - Len(sends) + i]

SimEntry(line, note) == [kind |-> "sim_cmd", payload |-> Payload(line, note)]

\* C6: _arduino_write returns success and raises nothing to its caller in
\* every device situation: forced simulation, no device discoverable, open
\* failure, a successful write, and a write that raises.
C6_SendAlwaysSucceeds ==
    \A i \in Calls : sends[i].ret = "True"

\* a handler whose first write raised on the open connection and whose next
\* call could not reopen the port
C6_Witness ==
    /\ Len(sends) >= 2
    /\ sends[1].conn_before = "open" /\ "write_failed" \in sends[1].hw
    /\ "open_failed" \in sends[2].hw
    /\ sends[2].ret = "True"

\* C7: when simulation is not forced, no connection is open and discovery
\* or open of the device fails, the send hands the command to the
\* simulation sink, returns success, and appends a sim_cmd entry that
\* carries the fallback reason.
C7_FallbackWhenNoDevice ==
    \A i \in Calls :
        (/\ ~SIM_MODE
         /\ sends[i].conn_before = "None"
         /\ ("no_port" \in sends[i].hw \/ "open_failed" \in sends[i].hw))
        => /\ sends[i].ret = "True"
           /\ sends[i].sim_after = Some(sends[i].line)
           /\ EntryOf(i) = SimEntry(sends[i].line, "auto-fallback-no-device")

\* an URGENT command sent while no port is enumerated
C7_Witness ==
    \E i \in Calls :
        /\ ~SIM_MODE
        /\ sends[i].line = Cmd("URGENT")
        /\ "no_port" \in sends[i].hw
        /\ EntryOf(i).payload.note = "auto-fallback-no-device"

\* C8: while forced simulation is set every send returns success and makes
\* a sim_cmd entry the last entry of the event log, and the hardware is
\* never touched: neither a send nor the startup of the poll loop attempts
\* discovery, open or write, the handle never becomes open, and no
\* arduino_cmd entry is logged.
C8_ForcedSimTouchesNoHardware ==
    SIM_MODE =>
        /\ \A i \in Calls :
              /\ sends[i].ret = "True"
              /\ EntryOf(i) = SimEntry(sends[i].line, NoNote)
              /\ sends[i].hw = {}
        /\ hw_calls = {}
        /\ arduino_connection = "None"
        /\ \A k \in 1..Len(event_log) : event_log[k].kind # "arduino_cmd"

\* forced simulation, and the poll loop has sent URGENT after its startup
C8_Witness ==
    /\ SIM_MODE
    /\ pc = "sleep"
    /\ \E i \in Calls : sends[i].line = Cmd("URGENT")
    /\ Last(event_log).kind = "sim_cmd"

\* C9: if the write on a previously open connection raises, the send clears
\* the handle (the channel is disconnected), records the command as
\* simulated with a fallback note, and returns success.
C9_WriteErrorClosesAndSimulates ==
    \A i \in Calls :
        (sends[i].conn_before = "open" /\ "write_failed" \in sends[i].hw)
        => /\ sends[i].conn_after = "None"
           /\ sends[i].ret = "True"
           /\ sends[i].sim_after = Some(sends[i].line)
           /\ EntryOf(i) = SimEntry(sends[i].line, "auto-fallback-error")

\* the connection opened at startup, and the write of a later cycle raised
C9_Witness ==
    /\ handler = "poll_cycle"
    /\ sends[1].conn_before = "open"
    /\ "write_failed" \in sends[1].hw
    /\ arduino_connection = "None"

-----------------------------------------------------------------------------
(* Claims about the poll loop as a thread (SpecLive) *)

\* C10: the poll loop never terminates: whatever happens in a cycle (a
\* failed fetch, a device that cannot be found or opened, a write that
\* raises), the loop reaches its sleep and starts another cycle; every
\* cycle of the bounded run is followed by a next one.
C10_LoopNeverTerminates ==
    /\ [](pc \in {"startup", "cycle", "sleep"})
    /\ (pc = "sleep") ~> (pc = "cycle")
    /\ \A k \in 0..(MaxCycles - 1) : (cycle = k) ~> (cycle = k + 1)

\* the loop is back at the top after a cycle whose fetch failed and whose
\* write raised
C10_Witness ==
    /\ pc = "cycle"
    /\ Len(trace) >= 1
    /\ ~LastCycle.fetch_ok
    /\ \E i \in 1..Len(LastCycle.sent) : "write_failed" \in LastCycle.sent[i].hw

-----------------------------------------------------------------------------
(* Two threads inside _arduino_write: the poll thread (start_background)    *)
(* and a thread serving a request (buzz).  The code takes no lock, so the   *)
(* statements of the two calls interleave; a blocking call (serial.Serial,  *)
(* the wait for the banner, write) is entered in one step and left in a     *)
(* later one.                                                               *)

RaceThreads == {"poll", "api"}

\* calls of _arduino_write each thread makes
MaxCalls == 2

\* the line each thread sends: the orientation command of the poll loop and
\* a manual command of /buzz
LineOf(t) == IF t = "poll" THEN Cmd("LED_STATUS_NONE") ELSE Cmd("URGENT")

atomicVars == << uiVars, pc, cycle, handler, sends, trace, requests, sessions, script, call >>

At(t, where) == threads[t].pc = where
Goto(t, where) == threads' = [threads EXCEPT ![t].pc = where]

\* lines 147-153: the call begins; forced simulation returns at once
EnterWrite(t) ==
    /\ At(t, "idle")
    /\ threads[t].calls < MaxCalls
    /\ IF SIM_MODE
       THEN /\ sim_last_cmd' = Some(LineOf(t))
            /\ event_log' = _log_event(event_log, "sim_cmd", Payload(LineOf(t), NoNote))
            /\ threads' = [threads EXCEPT ![t].calls = @ + 1]
       ELSE /\ threads' = [threads EXCEPT ![t].calls = @ + 1, ![t].pc = "check"]
            /\ UNCHANGED << sim_last_cmd, event_log >>
    /\ UNCHANGED << configVars, arduino_connection, hw_calls, atomicVars >>

\* line 155: is there an open handle
CheckHandle(t) ==
    /\ At(t, "check")
    /\ Goto(t, IF arduino_connection = "open" THEN "write" ELSE "discover")
    /\ UNCHANGED << configVars, channelVars, hw_calls, atomicVars >>

\* lines 115-118 and 156-162: discovery; without a port the command is
\* simulated
Discover(t, dev) ==
    /\ At(t, "discover")
    /\ IF find_arduino_port(dev) = None
       THEN /\ sim_last_cmd' = Some(LineOf(t))
            /\ event_log' = _log_event(event_log, "sim_cmd",
                                       Payload(LineOf(t), "auto-fallback-no-device"))
            /\ hw_calls' = hw_calls \cup {"comports", "no_port"}
            /\ Goto(t, "idle")
       ELSE /\ hw_calls' = hw_calls \cup {"comports"}
            /\ Goto(t, "opening")
            /\ UNCHANGED << sim_last_cmd, event_log >>
    /\ UNCHANGED << configVars, arduino_connection, atomicVars >>

\* lines 120 and 136-139: serial.Serial returns and the handle is stored,
\* or it raises, the handle is cleared and the command is simulated
OpenPort(t, dev) ==
    /\ At(t, "opening")
    /\ IF dev = "busy"
       THEN /\ arduino_connection' = "None"
            /\ sim_last_cmd' = Some(LineOf(t))
            /\ event_log' = _log_event(event_log, "sim_cmd",
                                       Payload(LineOf(t), "auto-fallback-no-device"))
            /\ hw_calls' = hw_calls \cup {"open", "open_failed"}
            /\ Goto(t, "idle")
       ELSE /\ arduino_connection' = "open"
            /\ hw_calls' = hw_calls \cup {"open"}
            /\ Goto(t, "wait_ready")
            /\ UNCHANGED << sim_last_cmd, event_log >>
    /\ UNCHANGED << configVars, atomicVars >>

\* lines 122-135: the sleep and the reads of the banner end
WaitReady(t) ==
    /\ At(t, "wait_ready")
    /\ Goto(t, "write")
    /\ hw_calls' = hw_calls \cup {"readline"}
    /\ UNCHANGED << configVars, channelVars, atomicVars >>

\* line 164: arduino_connection.write is called; a handle that another
\* thread cleared in the meantime, or a device that fails, raises
SerialWrite(t, dev) ==
    /\ At(t, "write")
    /\ IF arduino_connection = "None"
       THEN Goto(t, "except") /\ UNCHANGED hw_calls
       ELSE IF dev = "ready"
            THEN Goto(t, "writing") /\ hw_calls' = hw_calls \cup {"write"}
            ELSE Goto(t, "except") /\ hw_calls' = hw_calls \cup {"write", "write_failed"}
    /\ UNCHANGED << configVars, channelVars, atomicVars >>

\* lines 164-166: write returns, the command is logged
WriteDone(t) ==
    /\ At(t, "writing")
    /\ event_log' = _log_event(event_log, "arduino_cmd", Payload(LineOf(t), NoNote))
    /\ Goto(t, "idle")
    /\ UNCHANGED << configVars, arduino_connection, sim_last_cmd, hw_calls, atomicVars >>

\* lines 168-175: the handle is cleared and the command is simulated
HandleError(t) ==
    /\ At(t, "except")
    /\ arduino_connection' = "None"
    /\ sim_last_cmd' = Some(LineOf(t))
    /\ event_log' = _log_event(event_log, "sim_cmd",
                               Payload(LineOf(t), "auto-fallback-error"))
    /\ Goto(t, "idle")
    /\ UNCHANGED << configVars, hw_calls, atomicVars >>

RaceInit ==
    /\ SIM_MODE \in BOOLEAN
    /\ DefaultThresholds
    /\ Globals
    /\ script = <<>>
    /\ call = NoCall
    /\ threads = [t \in RaceThreads |-> [pc |-> "idle", calls |-> 0]]

RaceNext ==
    \E t \in RaceThreads :
       \/ EnterWrite(t)
       \/ CheckHandle(t)
       \/ \E dev \in DeviceStates : Discover(t, dev)
       \/ \E dev \in DeviceStates : OpenPort(t, dev)
       \/ WaitReady(t)
       \/ \E dev \in DeviceStates : SerialWrite(t, dev)
       \/ WriteDone(t)
       \/ HandleError(t)

SpecRace == RaceInit /\ [][RaceNext]_vars

-----------------------------------------------------------------------------
(* GET /status beside the poll thread.  The four stores of lines 337-340    *)
(* and the loads of the dict display of lines 451-456 are separate          *)
(* bytecodes with no lock around them, so a thread switch can fall between  *)
(* any two of them.  pc is the position of the poll thread, threads.poll    *)
(* its locals (and, as an observation, the result of every cycle begun),    *)
(* threads.status the position of the request thread and what it has        *)
(* loaded so far.                                                           *)

NothingRead ==
    [status |-> "IDLE", origin_secs |-> None, dest_secs |-> None,
     trip_id |-> NoTrip, last_updated |-> None]

\* lines 331-335: the fetch and the correlation of a cycle
CycleFetch(res) ==
    /\ pc = "cycle"
    /\ \E m \in {FetchAndMatch(res)} :
          threads' = [threads EXCEPT !.poll = [res |-> res, m |-> m,
                                               begun |-> Append(@.begun, m)]]
    /\ pc' = "store_origin_secs"
    /\ cycle' = cycle + 1
    /\ UNCHANGED << configVars, channelVars, uiVars, handler, sends, hw_calls,
                    trace, requests, sessions, script, call >>

\* line 337
StoreOriginSecs ==
    /\ pc = "store_origin_secs"
    /\ last_origin_secs' = threads.poll.m.origin_secs
    /\ pc' = "store_dest_secs"
    /\ UNCHANGED << configVars, channelVars, current_status, last_dest_secs,
                    last_trip_id, last_updated_iso, last_origin_alert,
                    last_dest_alert, cycle, handler, sends, hw_calls, trace,
                    requests, sessions, script, call, threads >>

\* line 338
StoreDestSecs ==
    /\ pc = "store_dest_secs"
    /\ last_dest_secs' = threads.poll.m.dest_secs
    /\ pc' = "store_trip_id"
    /\ UNCHANGED << configVars, channelVars, current_status, last_origin_secs,
                    last_trip_id, last_updated_iso, last_origin_alert,
                    last_dest_alert, cycle, handler, sends, hw_calls, trace,
                    requests, sessions, script, call, threads >>

\* line 339
StoreTripId ==
    /\ pc = "store_trip_id"
    /\ last_trip_id' = threads.poll.m.trip_id
    /\ pc' = "store_updated"
    /\ UNCHANGED << configVars, channelVars, current_status, last_origin_secs,
                    last_dest_secs, last_updated_iso, last_origin_alert,
                    last_dest_alert, cycle, handler, sends, hw_calls, trace,
                    requests, sessions, script, call, threads >>

\* line 340
StoreUpdated ==
    /\ pc = "store_updated"
    /\ last_updated_iso' = Some(cycle)
    /\ pc' = "rest"
    /\ UNCHANGED << configVars, channelVars, current_status, last_origin_secs,
                    last_dest_secs, last_trip_id, last_origin_alert,
                    last_dest_alert, cycle, handler, sends, hw_calls, trace,
                    requests, sessions, script, call, threads >>

\* lines 342-379: the badge, the dispatch and the orientation command
RestOfCycle(dev) ==
    /\ pc = "rest"
    /\ \E m \in {threads.poll.m}, res \in {threads.poll.res} :
       \E origin_alert \in {check_origin_alerts(m.origin_secs)} :
       \E dest_alert \in {check_dest_alerts(m.dest_secs)} :
       \E o \in {Dispatch(StartRun, "origin", origin_alert, last_origin_alert, dev)} :
       \E d \in {Dispatch(o.r, "dest", dest_alert, last_dest_alert, dev)} :
       \E r \in {send_led_status_update(d.r, m.origin_secs, m.dest_secs, dev)} :
          /\ current_status' = Badge(m.origin_secs, m.dest_secs)
          /\ last_origin_alert' = o.last
          /\ last_dest_alert' = d.last
          /\ arduino_connection' = r.ch.conn
          /\ sim_last_cmd' = r.ch.sim_last
          /\ event_log' = r.ch.log
          /\ sends' = r.sends
          /\ hw_calls' = hw_calls \cup HwOf(r.sends)
          /\ trace' = Append(trace,
                        [fetch_ok |-> res.origin_ok /\ res.dest_ok,
                         failed |-> IF res.origin_ok /\ res.dest_ok
                                    THEN <<>> ELSE <<res>>,
                         o_secs |-> m.origin_secs, d_secs |-> m.dest_secs,
                         prev_origin |-> last_origin_alert,
                         prev_dest |-> last_dest_alert,
                         origin_alert |-> origin_alert, dest_alert |-> dest_alert,
                         log_len |-> Len(event_log),
                         sent |-> r.sends])
          /\ pc' = PollNextPc(res, d.r.raised)
    /\ handler' = "poll_cycle"
    /\ UNCHANGED << configVars, last_origin_secs, last_dest_secs, last_trip_id,
                    last_updated_iso, cycle, requests, sessions, script, call, threads >>

\* one load of the dict display of status(): lines 451-456
StatusLoad(from, field, value, to) ==
    /\ threads.status.pc = from
    /\ threads' = [threads EXCEPT !.status.pc = to, !.status.got[field] = value]
    /\ UNCHANGED << configVars, channelVars, uiVars, pc, cycle, handler, sends,
                    hw_calls, trace, requests, sessions, script, call >>

StatusLoadStatus ==
    StatusLoad("load_status", "status", current_status, "load_origin_secs")
StatusLoadOriginSecs ==
    StatusLoad("load_origin_secs", "origin_secs", last_origin_secs, "load_dest_secs")
StatusLoadDestSecs ==
    StatusLoad("load_dest_secs", "dest_secs", last_dest_secs, "load_trip_id")
StatusLoadTripId ==
    StatusLoad("load_trip_id", "trip_id", last_trip_id, "load_last_updated")
StatusLoadUpdated ==
    StatusLoad("load_last_updated", "last_updated", last_updated_iso, "respond")

\* lines 449-462: the response leaves with what was loaded
status ==
    /\ threads.status.pc = "respond"
    /\ threads' = [threads EXCEPT !.status.pc = "load_status"]
    /\ requests' = requests + 1
    /\ handler' = "status"
    /\ UNCHANGED << configVars, channelVars, uiVars, pc, cycle, sends,
                    hw_calls, trace, sessions, script, call >>

\* what the fetches of these runs bring: nothing, one trip on both stops,
\* another trip on both stops, and a failure
StatusFetches ==
    { Fetched(<<>>, <<>>),
      Fetched(<<Row(200, "A")>>, <<Row(500, "A")>>),
      Fetched(<<Row(25, "B")>>, <<Row(50, "B")>>),
      [origin_ok |-> FALSE, dest_ok |-> TRUE, origin_rows |-> <<>>, dest_rows |-> <<>>] }

StatusInit ==
    /\ SIM_MODE \in BOOLEAN
    /\ DefaultThresholds
    /\ Globals
    /\ script = <<>>
    /\ call = NoCall
    /\ threads = [poll   |-> [res |-> Fetched(<<>>, <<>>), m |-> NoMatch,
                              begun |-> <<>>],
                  status |-> [pc |-> "load_status", got |-> NothingRead]]

StatusNext ==
    \/ \E dev \in DeviceStates : PollStartup(dev)
    \/ cycle < MaxCycles /\ \E res \in StatusFetches : CycleFetch(res)
    \/ StoreOriginSecs
    \/ StoreDestSecs
    \/ StoreTripId
    \/ StoreUpdated
    \/ \E dev \in DeviceStates : RestOfCycle(dev)
    \/ PollSleep
    \/ requests < MaxRequests /\ StatusLoadStatus
    \/ StatusLoadOriginSecs
    \/ StatusLoadDestSecs
    \/ StatusLoadTripId
    \/ StatusLoadUpdated
    \/ status

SpecStatus == StatusInit /\ [][StatusNext]_vars

-----------------------------------------------------------------------------
(* The event log on its own: _log_event called again and again, the n-th    *)
(* call with payload n.                                                     *)

\* calls of _log_event in one run
MaxAppends == 203

LogInit ==
    /\ SIM_MODE \in BOOLEAN
    /\ DefaultThresholds
    /\ Globals
    /\ threads = NoThreads
    /\ script = <<>>
    /\ call = [fn |-> "_log_event", args |-> <<0>>, result |-> <<>>]

LogAppend ==
    /\ call.fn = "_log_event"
    /\ call.args[1] < MaxAppends
    /\ event_log' = _log_event(event_log,
                               IF SIM_MODE THEN "sim_cmd" ELSE "arduino_cmd",
                               call.args[1] + 1)
    /\ call' = [call EXCEPT !.args = << call.args[1] + 1 >>]
    /\ UNCHANGED << configVars, arduino_connection, sim_last_cmd, uiVars, pc,
                    cycle, handler, sends, hw_calls, trace, requests, sessions, script,
                    threads >>

SpecLog == LogInit /\ [][LogAppend]_vars

-----------------------------------------------------------------------------
(* The prediction fetch on its own.  A timestamp string is missing (None),  *)
(* or it is [form, at]: form "Z" (a trailing Z), "offset" (an explicit UTC  *)
(* offset), "empty" (the empty string) or "malformed"; at is the instant it *)
(* names, in ticks after the now of line 246.  An item of the API carries   *)
(* arrival_time, departure_time, the trip id and the direction id.          *)

\* lines 226-233
parse_time(timestr) ==
    IF timestr = None \/ timestr[1].form = "empty" THEN None
    ELSE IF timestr[1].form \in {"Z", "offset"} THEN Some(timestr[1].at)
    ELSE None

\* rows.sort(key=lambda r: r["secs"]): a stable sort; row goes behind the
\* rows of sorted that are not later than it
RECURSIVE InsertBySecs(_, _)
InsertBySecs(sorted, row) ==
    IF sorted = <<>> THEN << row >>
    ELSE IF Last(sorted).secs <= row.secs THEN Append(sorted, row)
    ELSE Append(InsertBySecs(SubSeq(sorted, 1, Len(sorted) - 1), row), Last(sorted))

RECURSIVE SortBySecs(_)
SortBySecs(rows) ==
    IF rows = <<>> THEN <<>>
    ELSE InsertBySecs(SortBySecs(SubSeq(rows, 1, Len(rows) - 1)), Last(rows))

\* the for loop of lines 248-269 over the items from index i on
RECURSIVE CollectRows(_, _, _)
CollectRows(data, i, rows) ==
    IF i > Len(data) THEN rows
    ELSE LET at == parse_time(data[i].arrival_time)
             dt == parse_time(data[i].departure_time)
             ts == IF at # None THEN at ELSE dt
         IN IF ts = None THEN CollectRows(data, i + 1, rows)
            ELSE IF ts[1] <= 0 THEN CollectRows(data, i + 1, rows)
            ELSE CollectRows(data, i + 1,
                     Append(rows, [secs |-> ts[1], trip_id |-> data[i].trip_id,
                                   direction_id |-> data[i].direction_id]))

\* a plausible slip: the rows are returned in the order of the API
_normalize_predictions_unsorted(data) == CollectRows(data, 1, <<>>)

_normalize_predictions(data) == SortBySecs(CollectRows(data, 1, <<>>))

\* items of the API in one response
MaxItems == 2

TimeStrs ==
    { None,
      Some([form |-> "malformed", at |-> 0]),
      Some([form |-> "empty", at |-> 0]),
      Some([form |-> "Z", at |-> 0 - 1]),
      Some([form |-> "Z", at |-> 0]),
      Some([form |-> "Z", at |-> 3]),
      Some([form |-> "offset", at |-> 1]) }

ApiItems ==
    [arrival_time : TimeStrs, departure_time : TimeStrs,
     trip_id : {NoTrip, "A"}, direction_id : {0}]

ApiData == UNION { [1..n -> ApiItems] : n \in 0..MaxItems }

NormalizeInit ==
    /\ SIM_MODE = FALSE
    /\ DefaultThresholds
    /\ Globals
    /\ threads = NoThreads
    /\ script = <<>>
    /\ \E data \in ApiData :
          call = [fn |-> "_normalize_predictions", args |-> <<data>>, result |-> <<>>]

Normalize ==
    /\ call.fn = "_normalize_predictions"
    /\ call.result = <<>>
    /\ call' = [call EXCEPT !.result = << _normalize_predictions(call.args[1]) >>]
    /\ UNCHANGED << configVars, channelVars, uiVars, pc, cycle, handler, sends,
                    hw_calls, trace, requests, sessions, script, threads >>

SpecNormalize == NormalizeInit /\ [][Normalize]_vars

-----------------------------------------------------------------------------
(* The orientation command on its own: send_led_status_update called with  *)
(* every pair of ETAs, absent ones included.                                *)

OrientationEtas == { None, Some(0), Some(25), Some(50), Some(200) }

OrientInit ==
    /\ SIM_MODE \in BOOLEAN
    /\ DefaultThresholds
    /\ Globals
    /\ threads = NoThreads
    /\ script = <<>>
    /\ \E origin_secs \in OrientationEtas, dest_secs \in OrientationEtas :
          call = [fn |-> "send_led_status_update",
                  args |-> <<origin_secs, dest_secs>>, result |-> <<>>]

Orient(dev) ==
    /\ call.fn = "send_led_status_update"
    /\ call.result = <<>>
    /\ \E r \in {send_led_status_update(StartRun, call.args[1], call.args[2], dev)} :
          /\ arduino_connection' = r.ch.conn
          /\ sim_last_cmd' = r.ch.sim_last
          /\ event_log' = r.ch.log
          /\ sends' = r.sends
          /\ hw_calls' = hw_calls \cup HwOf(r.sends)
    /\ call' = [call EXCEPT !.result = << "None" >>]
    /\ handler' = "send_led_status_update"
    /\ UNCHANGED << configVars, uiVars, pc, cycle, trace, requests, sessions, script, threads >>

OrientNext == \E dev \in DeviceStates : Orient(dev)

SpecOrient == OrientInit /\ [][OrientNext]_vars

-----------------------------------------------------------------------------
(* connect_to_arduino statement by statement, with the time its blocking    *)
(* calls take.  threads.connect holds the position, the ticks since t0 of   *)
(* line 124, the latest line read ("banner", "other", "empty" for a read    *)
(* that timed out, "raised") and whether a banner was read.                 *)

\* serial.Serial(port, BAUD_RATE, timeout=1): seconds a read waits at most
READ_TIMEOUT_SECS == 1

\* while time.time() - t0 < 3.0
READY_WINDOW_SECS == 3

connectUnchanged ==
    << configVars, sim_last_cmd, event_log, uiVars, pc, cycle, handler, sends,
       trace, requests, sessions, script >>

\* lines 115-118
ConnectFind ==
    /\ threads.connect.pc = "find"
    /\ IF find_arduino_port(call.args[1]) = None
       THEN /\ threads' = [threads EXCEPT !.connect.pc = "returned"]
            /\ call' = [call EXCEPT !.result = << FALSE >>]
            /\ hw_calls' = hw_calls \cup {"comports", "no_port"}
       ELSE /\ threads' = [threads EXCEPT !.connect.pc = "open"]
            /\ hw_calls' = hw_calls \cup {"comports"}
            /\ UNCHANGED call
    /\ UNCHANGED << arduino_connection, connectUnchanged >>

\* lines 120-122 and 136-139: serial.Serial returns and the thread sleeps,
\* or it raises
ConnectOpen ==
    /\ threads.connect.pc = "open"
    /\ IF call.args[1] = "busy"
       THEN /\ arduino_connection' = "None"
            /\ threads' = [threads EXCEPT !.connect.pc = "returned"]
            /\ call' = [call EXCEPT !.result = << FALSE >>]
            /\ hw_calls' = hw_calls \cup {"open", "open_failed"}
       ELSE /\ arduino_connection' = "open"
            /\ threads' = [threads EXCEPT !.connect.pc = "while"]
            /\ hw_calls' = hw_calls \cup {"open"}
            /\ UNCHANGED call
    /\ UNCHANGED connectUnchanged

\* line 125: the window is open while less than 3.0 s have passed since t0
ConnectWhile ==
    /\ threads.connect.pc = "while"
    /\ threads' = [threads EXCEPT !.connect.pc =
                      IF threads.connect.waited < READY_WINDOW_SECS * TicksPerSec
                      THEN "readline" ELSE "connected"]
    /\ UNCHANGED << arduino_connection, hw_calls, call, connectUnchanged >>

\* lines 126-133: one readline, which returns within the read timeout: a
\* line with the banner, another line, nothing after the full timeout, or
\* an exception
ConnectReadline(line, took) ==
    /\ threads.connect.pc = "readline"
    /\ line = "empty" => took = READ_TIMEOUT_SECS * TicksPerSec
    /\ threads' = [threads EXCEPT
                      !.connect.waited = @ + took,
                      !.connect.line = line,
                      !.connect.banner = (line = "banner"),
                      !.connect.pc = IF line = "banner" THEN "connected" ELSE "while"]
    /\ hw_calls' = hw_calls \cup {"readline"}
    /\ UNCHANGED << arduino_connection, call, connectUnchanged >>

\* a plausible slip: without the banner the connection is not usable
ConnectResult_requires_banner(banner) == banner

\* lines 134-135: return True, banner or not
ConnectResult(banner) == TRUE

ConnectReturn ==
    /\ threads.connect.pc = "connected"
    /\ threads' = [threads EXCEPT !.connect.pc = "returned"]
    /\ call' = [call EXCEPT !.result = << ConnectResult(threads.connect.banner) >>]
    /\ UNCHANGED << arduino_connection, hw_calls, connectUnchanged >>

ReadTimes == 0..(READ_TIMEOUT_SECS * TicksPerSec)

ConnectInit ==
    /\ SIM_MODE = FALSE
    /\ DefaultThresholds
    /\ Globals
    /\ script = <<>>
    /\ \E dev \in DeviceStates :
          call = [fn |-> "connect_to_arduino", args |-> <<dev>>, result |-> <<>>]
    /\ threads = [connect |-> [pc |-> "find", waited |-> 0, line |-> "empty",
                               banner |-> FALSE]]

\* a read that takes time
ConnectReadlineTakingTime ==
    \E line \in {"banner", "other", "empty", "raised"}, took \in ReadTimes \ {0} :
       ConnectReadline(line, took)

ConnectNext ==
    \/ ConnectFind
    \/ ConnectOpen
    \/ ConnectWhile
    \/ \E line \in {"banner", "other", "empty", "raised"}, took \in ReadTimes :
          ConnectReadline(line, took)
    \/ ConnectReturn

\* the thread keeps running, and the clock does not stand still over
\* infinitely many reads
SpecConnect ==
    /\ ConnectInit
    /\ [][ConnectNext]_vars
    /\ WF_vars(ConnectNext)
    /\ SF_vars(ConnectReadlineTakingTime)

-----------------------------------------------------------------------------
(* _log_event statement by statement in two threads, the poll thread and a  *)
(* request thread, each inside _arduino_write.  Lists are objects:          *)
(* threads.lists holds the list objects made so far, threads.bound is the   *)
(* one the global event_log names, and event_log is its content.            *)
(* threads.appended is every entry in the order of the appends.  A thread   *)
(* holds the list it loaded for the append (ref) and the slice it computed  *)
(* (tmp).  The log starts nearly full, as earlier sends have left it.       *)

LogThreads == {"poll", "request"}

\* calls of _log_event each thread makes
MaxEvents == 2

\* the log after n sends, the k-th with payload k
LogOf(n) ==
    [k \in 1..n |-> [kind |-> IF SIM_MODE THEN "sim_cmd" ELSE "arduino_cmd",
                     payload |-> k]]

LogRaceInit ==
    /\ SIM_MODE \in BOOLEAN
    /\ DefaultThresholds
    /\ arduino_connection = "None"
    /\ sim_last_cmd = None
    /\ \E n \in {EVENT_LOG_MAX - 1, EVENT_LOG_MAX} :
          /\ event_log = LogOf(n)
          /\ threads = [lists |-> << LogOf(n) >>, bound |-> 1, appended |-> LogOf(n),
                        poll |-> [pc |-> "idle", ref |-> 0, tmp |-> <<>>, done |-> 0],
                        request |-> [pc |-> "idle", ref |-> 0, tmp |-> <<>>, done |-> 0]]
    /\ current_status = "IDLE"
    /\ last_origin_secs = None
    /\ last_dest_secs = None
    /\ last_trip_id = NoTrip
    /\ last_updated_iso = None
    /\ last_origin_alert = "IDLE"
    /\ last_dest_alert = "IDLE"
    /\ pc = "cycle"
    /\ cycle = 0
    /\ handler = "none"
    /\ sends = <<>>
    /\ hw_calls = {}
    /\ trace = <<>>
    /\ requests = 0
    /\ sessions = <<>>
    /\ script = <<>>
    /\ call = [fn |-> "_log_event", args |-> <<>>, result |-> <<>>]

logRaceUnchanged ==
    << configVars, arduino_connection, sim_last_cmd, uiVars, pc, cycle, handler,
       sends, hw_calls, trace, requests, sessions, script, call >>

\* line 69, event_log.append: the list the global names is loaded, then
\* the argument is built (datetime.now and isoformat are called)
EventLoad(t) ==
    /\ threads[t].pc = "idle"
    /\ threads[t].done < MaxEvents
    /\ threads' = [threads EXCEPT ![t].pc = "append", ![t].ref = threads.bound]
    /\ UNCHANGED << event_log, logRaceUnchanged >>

\* lines 69-73: the call of append, on the list that was loaded
EventAppend(t) ==
    /\ threads[t].pc = "append"
    /\ \E entry \in {[kind |-> IF SIM_MODE THEN "sim_cmd" ELSE "arduino_cmd",
                      payload |-> Len(threads.appended) + 1]} :
          threads' = [threads EXCEPT
                         !.lists[threads[t].ref] = Append(@, entry),
                         !.appended = Append(@, entry),
                         ![t].pc = "len"]
    /\ event_log' = threads'.lists[threads'.bound]
    /\ UNCHANGED logRaceUnchanged

\* line 74: len(event_log) > 200
EventLen(t) ==
    /\ threads[t].pc = "len"
    /\ IF Len(event_log) > EVENT_LOG_MAX
       THEN threads' = [threads EXCEPT ![t].pc = "slice"]
       ELSE threads' = [threads EXCEPT ![t].pc = "idle", ![t].done = @ + 1]
    /\ UNCHANGED << event_log, logRaceUnchanged >>

\* line 75, right-hand side: event_log[-200:], a new list
EventSlice(t) ==
    /\ threads[t].pc = "slice"
    /\ threads' = [threads EXCEPT
                      ![t].pc = "store",
                      ![t].tmp = SubSeq(event_log,
                                        IF Len(event_log) > EVENT_LOG_MAX
                                        THEN Len(event_log) - EVENT_LOG_MAX + 1 ELSE 1,
                                        Len(event_log))]
    /\ UNCHANGED << event_log, logRaceUnchanged >>

\* line 75, the assignment: the global names the new list
EventStore(t) ==
    /\ threads[t].pc = "store"
    /\ threads' = [threads EXCEPT
                      !.lists = Append(@, threads[t].tmp),
                      !.bound = Len(threads.lists) + 1,
                      ![t].pc = "idle", ![t].tmp = <<>>, ![t].done = @ + 1]
    /\ event_log' = threads[t].tmp
    /\ UNCHANGED logRaceUnchanged

LogRaceNext ==
    \E t \in LogThreads :
       \/ EventLoad(t)
       \/ EventAppend(t)
       \/ EventLen(t)
       \/ EventSlice(t)
       \/ EventStore(t)

SpecLogRace == LogRaceInit /\ [][LogRaceNext]_vars

-----------------------------------------------------------------------------
(* The standalone controller, transit_keychain.py.  Its module globals and  *)
(* the locals of main are the variables of the same names: the thresholds,  *)
(* arduino_connection, last_origin_alert, last_dest_alert.  An item of a    *)
(* prediction response is [arrival, trip_id]: arrival is what parse_time    *)
(* and time_until make of arrival_time, None or the ticks until the         *)
(* arrival (negative: past).  The controller never reads the trip id.  A    *)
(* record of trace is one pass of the loop of main.                         *)

\* lines 21-27
KeychainThresholds ==
    /\ ORIGIN_NEARBY_THRESHOLD = 1300
    /\ ORIGIN_APPROACH_THRESHOLD = 120
    /\ ORIGIN_STOP_THRESHOLD = 60
    /\ DEST_NEARBY_THRESHOLD = 1400
    /\ DEST_APPROACH_THRESHOLD = 300
    /\ DEST_STOP_THRESHOLD = 120

\* lines 126-140; origin_arrival is a float number of seconds
keychain_check_origin_alerts(origin_arrival) ==
    IF origin_arrival = None THEN "IDLE"
    ELSE IF origin_arrival[1] <= ORIGIN_URGENT_SECS * TicksPerSec THEN "URGENT"
    ELSE IF origin_arrival[1] <= ORIGIN_STOP_THRESHOLD * TicksPerSec THEN "ORIGIN_STOP"
    ELSE IF origin_arrival[1] <= ORIGIN_APPROACH_THRESHOLD * TicksPerSec
         THEN "ORIGIN_APPROACH"
    ELSE IF origin_arrival[1] <= ORIGIN_NEARBY_THRESHOLD * TicksPerSec
         THEN "ORIGIN_NEARBY"
    ELSE "IDLE"

\* lines 142-156
check_destination_alerts(dest_arrival) ==
    IF dest_arrival = None THEN "IDLE"
    ELSE IF dest_arrival[1] <= DEST_URGENT_SECS * TicksPerSec THEN "URGENT"
    ELSE IF dest_arrival[1] <= DEST_STOP_THRESHOLD * TicksPerSec THEN "DEST_STOP"
    ELSE IF dest_arrival[1] <= DEST_APPROACH_THRESHOLD * TicksPerSec THEN "DEST_APPROACH"
    ELSE IF dest_arrival[1] <= DEST_NEARBY_THRESHOLD * TicksPerSec THEN "DEST_NEARBY"
    ELSE "IDLE"

\* lines 180-189 and 193-202: the first item whose arrival time parses and
\* lies ahead, None when there is none
RECURSIVE FirstArrival(_, _)
FirstArrival(items, i) ==
    IF i > Len(items) THEN None
    ELSE IF items[i].arrival # None /\ items[i].arrival[1] > 0 THEN Some(items[i])
    ELSE FirstArrival(items, i + 1)

ArrivalOf(first) == IF first = None THEN None ELSE first[1].arrival
TripOf(first) == IF first = None THEN NoTrip ELSE first[1].trip_id

\* send_alert, send_urgent_alert and send_status_update, lines 60-97: the
\* line is written when the handle is open, and an exception of the write
\* is caught.  ss is the calls made so far
keychain_send(ss, src, command, dev) ==
    Append(ss, [src |-> src, line |-> Cmd(command),
                conn_before |-> arduino_connection, conn_after |-> arduino_connection,
                sim_after |-> None, ret |-> "None",
                hw |-> IF arduino_connection # "open" THEN {}
                       ELSE IF dev = "ready" THEN {"write"}
                       ELSE {"write", "write_failed"}])

\* lines 206-211 and 218-223
KeychainDispatch(ss, side, alert, last, dev) ==
    IF alert # last THEN keychain_send(ss, side, alert, dev) ELSE ss

\* lines 229-260: the format of line 230 raises when one of the two
\* arrivals is None, and the except clause of line 265 ends the pass
KeychainContinuous(ss, origin_arrival, dest_arrival, origin_alert, dest_alert, dev) ==
    IF origin_arrival = None \/ dest_arrival = None THEN ss
    ELSE LET current_alert == IF origin_arrival[1] < dest_arrival[1]
                              THEN origin_alert ELSE dest_alert
         IN keychain_send(keychain_send(ss, "continuous", current_alert, dev),
                          "continuous", "STATUS_UPDATE", dev)

KeychainInit ==
    /\ SIM_MODE = FALSE
    /\ KeychainThresholds
    /\ Globals
    /\ threads = NoThreads
    /\ script = <<>>
    /\ call = [fn |-> "main", args |-> <<>>, result |-> <<>>]

keychainUnchanged ==
    << configVars, sim_last_cmd, event_log, current_status, last_origin_secs,
       last_dest_secs, last_trip_id, last_updated_iso, requests, sessions, script,
       call, threads >>

\* lines 163-166 with connect_to_arduino, lines 42-58: main returns when
\* there is no port or the open raises
KeychainStartup(dev) ==
    /\ pc = "startup"
    /\ IF dev = "absent"
       THEN /\ pc' = "exited"
            /\ hw_calls' = hw_calls \cup {"comports", "no_port"}
            /\ UNCHANGED arduino_connection
       ELSE IF dev = "busy"
       THEN /\ pc' = "exited"
            /\ hw_calls' = hw_calls \cup {"comports", "open", "open_failed"}
            /\ UNCHANGED arduino_connection
       ELSE /\ pc' = "cycle"
            /\ hw_calls' = hw_calls \cup {"comports", "open"}
            /\ arduino_connection' = "open"
    /\ handler' = "main"
    /\ UNCHANGED << last_origin_alert, last_dest_alert, cycle, sends, trace,
                    keychainUnchanged >>

\* one pass through the loop of main, lines 177-267.  res is what the two
\* fetches bring; a fetch that raises ends the pass at line 265
KeychainCycle(res, dev) ==
    /\ pc = "cycle"
    /\ IF res.origin_ok /\ res.dest_ok
       THEN \E o \in {FirstArrival(res.origin_rows, 1)} :
            \E d \in {FirstArrival(res.dest_rows, 1)} :
            \E origin_alert \in {keychain_check_origin_alerts(ArrivalOf(o))} :
            \E dest_alert \in {check_destination_alerts(ArrivalOf(d))} :
            \E s1 \in {KeychainDispatch(<<>>, "origin", origin_alert,
                                        last_origin_alert, dev)} :
            \E s2 \in {KeychainDispatch(s1, "dest", dest_alert, last_dest_alert, dev)} :
            \E s3 \in {KeychainContinuous(s2, ArrivalOf(o), ArrivalOf(d),
                                          origin_alert, dest_alert, dev)} :
               /\ last_origin_alert' = origin_alert
               /\ last_dest_alert' = dest_alert
               /\ sends' = s3
               /\ hw_calls' = hw_calls \cup HwOf(s3)
               /\ trace' = Append(trace,
                             [fetch_ok |-> TRUE,
                              origin_arrival |-> ArrivalOf(o), dest_arrival |-> ArrivalOf(d),
                              origin_trip |-> TripOf(o), dest_trip |-> TripOf(d),
                              prev_origin |-> last_origin_alert,
                              prev_dest |-> last_dest_alert,
                              origin_alert |-> origin_alert, dest_alert |-> dest_alert,
                              sent |-> s3])
       ELSE /\ sends' = <<>>
            /\ trace' = Append(trace,
                          [fetch_ok |-> FALSE,
                           origin_arrival |-> None, dest_arrival |-> None,
                           origin_trip |-> NoTrip, dest_trip |-> NoTrip,
                           prev_origin |-> last_origin_alert,
                           prev_dest |-> last_dest_alert,
                           origin_alert |-> last_origin_alert,
                           dest_alert |-> last_dest_alert,
                           sent |-> <<>>])
            /\ UNCHANGED << last_origin_alert, last_dest_alert, hw_calls >>
    /\ pc' = "sleep"
    /\ cycle' = cycle + 1
    /\ handler' = "main"
    /\ UNCHANGED << arduino_connection, keychainUnchanged >>

\* lines 263 and 267
KeychainSleep ==
    /\ pc = "sleep"
    /\ handler = "main"
    /\ pc' = "cycle"
    /\ UNCHANGED << arduino_connection, last_origin_alert, last_dest_alert, cycle,
                    handler, sends, hw_calls, trace, keychainUnchanged >>

Item(secs, trip_id) == [arrival |-> Some(secs * TicksPerSec + 1), trip_id |-> trip_id]

\* what the fetch of a stop can bring: nothing, one train at several
\* distances, and a list that starts with an item without arrival time and
\* a train that has left
KeychainOriginFetches ==
    { <<>>, << Item(2000, "A") >>, << Item(400, "A") >>, << Item(25, "A") >>,
      << [arrival |-> None, trip_id |-> "C"], Item(-40, "A"), Item(400, "B") >> }

KeychainDestFetches ==
    { <<>>, << Item(3000, "A") >>, << Item(500, "A") >>, << Item(500, "B") >>,
      << Item(50, "A") >> }

KeychainFetchResults ==
    { Fetched(o, d) : o \in KeychainOriginFetches, d \in KeychainDestFetches }
    \cup { [origin_ok |-> FALSE, dest_ok |-> TRUE, origin_rows |-> <<>>, dest_rows |-> <<>>],
           [origin_ok |-> TRUE, dest_ok |-> FALSE,
            origin_rows |-> << Item(25, "A") >>, dest_rows |-> <<>>] }

KeychainNext ==
    \/ \E dev \in DeviceStates : KeychainStartup(dev)
    \/ cycle < MaxCycles /\ \E res \in KeychainFetchResults, dev \in DeviceStates :
          KeychainCycle(res, dev)
    \/ KeychainSleep

SpecKeychain == KeychainInit /\ [][KeychainNext]_vars

-----------------------------------------------------------------------------
(* emit_state_change on its own: a session that has emitted nothing or any  *)
(* of the four states, called with the state the session is in.             *)

SessionStates == {"AWAITING_BOARD", "ONBOARD", "APPROACHING_DEST", "ARRIVED"}

EmitInit ==
    /\ SIM_MODE \in BOOLEAN
    /\ DefaultThresholds
    /\ Globals
    /\ threads = NoThreads
    /\ script = <<>>
    /\ \E new_state \in SessionStates, emitted \in SessionStates \cup {"None"} :
          call = [fn |-> "emit_state_change",
                  args |-> << [Session EXCEPT !.state = new_state,
                                              !.last_emitted_state = emitted],
                              new_state >>,
                  result |-> <<>>]

Emit(dev) ==
    /\ call.fn = "emit_state_change"
    /\ call.result = <<>>
    /\ \E e \in {emit_state_change([r |-> StartRun, session |-> call.args[1]],
                                   call.args[2], dev)} :
          /\ Served(e.r, "emit_state_change")
          /\ call' = [call EXCEPT !.result = << e.session >>]
    /\ UNCHANGED << configVars, uiVars, pc, cycle, trace, requests, sessions, script,
                    threads >>

EmitNext == \E dev \in DeviceStates : Emit(dev)

SpecEmit == EmitInit /\ [][EmitNext]_vars

-----------------------------------------------------------------------------
(* The poll loop over every pair of prediction lists: rows with and        *)
(* without a trip id, 25 s and 200 s away, in the order the normaliser     *)
(* leaves them in.                                                         *)

PairRows == { Row(secs, trip_id) : secs \in {25, 200}, trip_id \in MatchTrips }

PairLists == { rows \in UNION { [1..n -> PairRows] : n \in 0..MaxRows } : IsSorted(rows) }

PairFetches == { Fetched(o, d) : o \in PairLists, d \in PairLists } \cup FetchFailures

NextPair ==
    \/ \E dev \in DeviceStates : PollStartup(dev)
    \/ cycle < MaxCycles /\ \E res \in PairFetches, dev \in DeviceStates : PollCycle(res, dev)
    \/ PollSleep

SpecPair == Init /\ [][NextPair]_vars

-----------------------------------------------------------------------------
(* The session endpoints on their own: /session, then /board and /progress *)
(* in any order, each under any device condition.  call keeps the request  *)
(* served last and the state it answered with.                             *)

\* /board and /progress requests served in a run
MaxSessionRequests == 4

\* the ETAs to the destination: far, one second above the 240 s of line
\* 668, 240 s, arrived
SessionEtas == {1000, 241, 240, 0}

Request(fn, args, id) ==
    [fn |-> fn, args |-> args, result |-> << sessions'[id].state >>]

SessionCreate(dev) ==
    /\ create_session(dev)
    /\ call' = Request("create_session", <<>>, Len(sessions) + 1)
    /\ UNCHANGED requests

SessionBoard(id, trip_id, dev) ==
    /\ requests < MaxSessionRequests
    /\ board_trip(id, trip_id, dev)
    /\ call' = Request("board_trip", << id, trip_id >>, id)
    /\ requests' = requests + 1

SessionProgress(id, eta_dest, dev) ==
    /\ requests < MaxSessionRequests
    /\ progress(id, eta_dest, dev)
    /\ call' = Request("progress", << id, eta_dest >>, id)
    /\ requests' = requests + 1

SessionNext ==
    \/ \E dev \in DeviceStates : SessionCreate(dev)
    \/ \E id \in DOMAIN sessions, trip_id \in TripIds, dev \in DeviceStates :
          SessionBoard(id, trip_id, dev)
    \/ \E id \in DOMAIN sessions, eta_dest \in SessionEtas, dev \in DeviceStates :
          SessionProgress(id, eta_dest, dev)

SpecSession == Init /\ [][SessionNext]_vars

-----------------------------------------------------------------------------
(* Claims about fetch failures within a cycle (Spec) *)

\* the prediction lists a cycle would work from if a fetch that raised
\* counted as an empty list for its own side only
SeenOrigin(res) == IF res.origin_ok THEN res.origin_rows ELSE <<>>
SeenDest(res) == IF res.dest_ok THEN res.dest_rows ELSE <<>>

\* C11: within one poll cycle the two fetches fail independently: a cycle
\* whose destination fetch raised still caches and classifies the origin ETA
\* from the origin predictions it fetched, and a cycle whose origin fetch
\* raised treats only the origin predictions as empty.
C11_FetchFailuresAreIndependent ==
    \A n \in 1..Len(trace) :
       \A i \in 1..Len(trace[n].failed) :
          LET c == trace[n]
              expected == match_origin_dest_by_trip(SeenOrigin(c.failed[i]),
                                                    SeenDest(c.failed[i]))
          IN /\ c.o_secs = expected.origin_secs
             /\ c.d_secs = expected.dest_secs
             /\ c.origin_alert = check_origin_alerts(expected.origin_secs)
             /\ c.dest_alert = check_dest_alerts(expected.dest_secs)

\* the destination fetch raised while the origin fetch brought a prediction,
\* and the cycle cached no origin ETA
C11_Witness ==
    /\ AfterCycle
    /\ LastCycle.failed # <<>>
    /\ LastCycle.failed[1].origin_ok
    /\ ~LastCycle.failed[1].dest_ok
    /\ LastCycle.failed[1].origin_rows # <<>>
    /\ last_origin_secs = None
    /\ LastCycle.origin_alert = "IDLE"

-----------------------------------------------------------------------------
(* Claims about the two threads on the device handle (SpecRace) *)

\* the thread is inside serial.Serial, reading the banner from the handle,
\* or inside write
UsesHandle(t) == threads[t].pc \in {"opening", "wait_ready", "writing"}

\* C12: use of the device connection is serialized: in no interleaving of
\* the poll loop's send with a manual command of the request path do both
\* threads open, read or write the connection at the same time.
C12_HandleUseIsSerialized ==
    ~(UsesHandle("poll") /\ UsesHandle("api"))

\* the request thread is inside write on the handle the poll thread stored
\* while the poll thread is still waiting for the banner on it
C12_Witness ==
    /\ threads["poll"].pc = "wait_ready"
    /\ threads["api"].pc = "writing"
    /\ arduino_connection = "open"

-----------------------------------------------------------------------------
(* Claims about a status read beside the poll thread (SpecStatus) *)

\* the four cached fields as cycle n stores them; the cycle stamps its
\* update with n
StoredBy(n) ==
    [origin_secs |-> threads.poll.begun[n].origin_secs,
     dest_secs |-> threads.poll.begun[n].dest_secs,
     trip_id |-> threads.poll.begun[n].trip_id,
     last_updated |-> Some(n)]

\* the cached fields as the import leaves them
StoredByImport ==
    [origin_secs |-> None, dest_secs |-> None, trip_id |-> NoTrip,
     last_updated |-> None]

\* what the read loaded of the four cached fields
ReadFields ==
    [origin_secs |-> threads.status.got.origin_secs,
     dest_secs |-> threads.status.got.dest_secs,
     trip_id |-> threads.status.got.trip_id,
     last_updated |-> threads.status.got.last_updated]

\* C13: a status read never observes a torn TripMatch: the origin ETA, the
\* destination ETA, the trip id and the last-update stamp one read returns
\* all come from the same poll cycle (or all from the import).
C13_StatusReadIsNotTorn ==
    threads.status.pc = "respond" =>
        \/ ReadFields = StoredByImport
        \/ \E n \in 1..Len(threads.poll.begun) : ReadFields = StoredBy(n)

\* a read that returns the origin ETA of the second cycle with the
\* destination ETA, trip id and stamp of the first
C13_Witness ==
    /\ threads.status.pc = "respond"
    /\ Len(threads.poll.begun) = 2
    /\ ReadFields.origin_secs = threads.poll.begun[2].origin_secs
    /\ ReadFields.origin_secs # threads.poll.begun[1].origin_secs
    /\ ReadFields.dest_secs = threads.poll.begun[1].dest_secs
    /\ ReadFields.dest_secs # threads.poll.begun[2].dest_secs
    /\ ReadFields.trip_id = threads.poll.begun[1].trip_id
    /\ ReadFields.last_updated = Some(1)

-----------------------------------------------------------------------------
(* Further claims about the trip correlator (SpecMatch) *)

\* origin row i has a trip id that a destination row carries too
Matchable(i) ==
    /\ OriginArg[i].trip_id # NoTrip
    /\ \E j \in 1..Len(DestArg) : DestArg[j].trip_id = OriginArg[i].trip_id

\* origin row i is an earliest origin prediction
Earliest(i) == \A k \in 1..Len(OriginArg) : OriginArg[i].secs <= OriginArg[k].secs

\* C14: when no origin prediction has a trip id that also appears among the
\* destination predictions, match_origin_dest_by_trip returns (ETA of the
\* earliest origin prediction, None, trip id of that prediction) if there is
\* an origin prediction and (None, None, None) if there is none; origin
\* [{trip A, eta 200}] with destination [{trip B, eta 500}] gives
\* (200, None, A).
C14_FallsBackToEarliestOrigin ==
    /\ (Returned /\ \A i \in 1..Len(OriginArg) : ~Matchable(i)) =>
          IF OriginArg = <<>>
          THEN MatchResult = NoMatch
          ELSE \E i \in 1..Len(OriginArg) :
                  /\ Earliest(i)
                  /\ MatchResult = [origin_secs |-> Some(int(OriginArg[i].secs)),
                                    dest_secs   |-> None,
                                    trip_id     |-> OriginArg[i].trip_id]
    /\ (Returned /\ OriginArg = OriginOfTripA /\ DestArg = DestOfTripB) =>
          MatchResult = [origin_secs |-> Some(200), dest_secs |-> None, trip_id |-> "A"]

\* the call on origin [{trip A, eta 200}] and destination [{trip B, eta 500}]
\* has returned
C14_Witness ==
    /\ Returned
    /\ OriginArg = OriginOfTripA
    /\ DestArg = DestOfTripB
    /\ MatchResult.origin_secs = Some(200)
    /\ MatchResult.dest_secs = None

-----------------------------------------------------------------------------
(* Claims about the event log (SpecLog) *)

Appended == call.args[1]

\* C15: after any sequence of appends the event log holds at most 200
\* entries, and they are exactly the most recently appended entries in
\* append order: the oldest are evicted first.
C15_LogKeepsNewest200 ==
    call.fn = "_log_event" =>
        /\ Len(event_log) <= 200
        /\ Len(event_log) = IF Appended <= 200 THEN Appended ELSE 200
        /\ \A i \in 1..Len(event_log) :
              event_log[i].payload = Appended - Len(event_log) + i

\* two entries have been evicted: the log is full and starts at the third
C15_Witness ==
    /\ call.fn = "_log_event"
    /\ Appended = 202
    /\ Len(event_log) = 200
    /\ event_log[1].payload = 3
    /\ event_log[200].payload = 202

-----------------------------------------------------------------------------
(* Claims about the orientation command (Spec) *)

OrientationLines ==
    { Cmd("LED_STATUS_ORIGIN"), Cmd("LED_STATUS_DEST"), Cmd("LED_STATUS_NONE") }

\* the orientation commands among the calls of a cycle
OrientationSent(c) == SelectSeq(c.sent, LAMBDA x : x.line \in OrientationLines)

\* C16: every poll cycle sends exactly one orientation command
\* (LED_STATUS_ORIGIN, LED_STATUS_DEST or LED_STATUS_NONE), whether or not a
\* level changed in the cycle, and also in a cycle whose fetch failed; it is
\* the last command of the cycle.
C16_OneOrientationCommandPerCycle ==
    \A n \in 1..Len(trace) :
       /\ Len(OrientationSent(trace[n])) = 1
       /\ trace[n].sent # <<>>
       /\ Last(trace[n].sent).src = "led"
       /\ Last(trace[n].sent).line \in OrientationLines
       /\ Last(trace[n].sent).ret = "True"

\* a cycle whose fetch failed and in which no level changed sent the
\* orientation command and nothing else
C16_Witness ==
    /\ AfterCycle
    /\ ~LastCycle.fetch_ok
    /\ LastCycle.origin_alert = LastCycle.prev_origin
    /\ LastCycle.dest_alert = LastCycle.prev_dest
    /\ Lines(LastCycle.sent) = << Cmd("LED_STATUS_NONE") >>

-----------------------------------------------------------------------------
(* Claims about the prediction fetch (SpecNormalize) *)

Normalized == call.fn = "_normalize_predictions" /\ call.result # <<>>
ApiArg == call.args[1]
Rows == call.result[1]

\* the timestamp string can be read as an instant
WellFormed(timestr) == timestr # None /\ timestr[1].form \in {"Z", "offset"}

\* the instant of an item: its arrival time, else its departure time
Instant(item) ==
    IF WellFormed(item.arrival_time) THEN Some(item.arrival_time[1].at)
    ELSE IF WellFormed(item.departure_time) THEN Some(item.departure_time[1].at)
    ELSE None

Upcoming(item) == Instant(item) # None /\ Instant(item)[1] > 0

RowOf(item) ==
    [secs |-> Instant(item)[1], trip_id |-> item.trip_id,
     direction_id |-> item.direction_id]

\* how often row occurs in the sequence rows
Occurrences(rows, row) == Cardinality({ k \in 1..Len(rows) : rows[k] = row })

\* C17: _normalize_predictions returns a list sorted ascending by ETA that
\* holds only predictions with strictly positive ETA and has at most as many
\* entries as the API returned; an item whose timestamp is missing or
\* malformed is skipped without failing the fetch, an item with a
\* non-positive ETA is discarded, and every other item is returned.
C17_FetchIsSortedAndPositive ==
    Normalized =>
        /\ \A i, j \in 1..Len(Rows) : i < j => Rows[i].secs <= Rows[j].secs
        /\ \A i \in 1..Len(Rows) : Rows[i].secs > 0
        /\ Len(Rows) <= Len(ApiArg)
        /\ Len(Rows) = Cardinality({ i \in 1..Len(ApiArg) : Upcoming(ApiArg[i]) })
        /\ \A i \in 1..Len(ApiArg) :
              Upcoming(ApiArg[i]) =>
                  Occurrences(Rows, RowOf(ApiArg[i])) =
                      Cardinality({ k \in 1..Len(ApiArg) :
                                      /\ Upcoming(ApiArg[k])
                                      /\ RowOf(ApiArg[k]) = RowOf(ApiArg[i]) })

\* the API returned a later item before an earlier one and an item whose
\* arrival time is malformed: both usable items come back, earliest first
C17_Witness ==
    /\ Normalized
    /\ Len(ApiArg) = 2
    /\ ApiArg[1].arrival_time = Some([form |-> "malformed", at |-> 0])
    /\ ApiArg[1].departure_time = Some([form |-> "Z", at |-> 3])
    /\ ApiArg[2].arrival_time = Some([form |-> "offset", at |-> 1])
    /\ Len(Rows) = 2
    /\ Rows[1].secs = 1 /\ Rows[2].secs = 3

\* the first origin row that can be matched
FirstMatchable ==
    CHOOSE i \in 1..Len(OriginArg) :
       Matchable(i) /\ \A k \in 1..(i - 1) : ~Matchable(k)

\* the first destination row of the trip
FirstOfTrip(trip_id) ==
    CHOOSE j \in 1..Len(DestArg) :
       /\ DestArg[j].trip_id = trip_id
       /\ \A k \in 1..(j - 1) : DestArg[k].trip_id # trip_id

-----------------------------------------------------------------------------
(* Claims about the command of a level change (SpecScenario) *)

SidePrefix(side) == IF side = "origin" THEN "ORIGIN" ELSE "DEST"

\* the levels a side can take
LevelsOf(side) ==
    { "URGENT", "IDLE" } \cup
    { SidePrefix(side) \o "_" \o bucket : bucket \in {"NEARBY", "APPROACH", "STOP"} }

\* C19: on a level change the level command sent is determined by the new
\* level alone: URGENT for a new level URGENT on either side, the
\* side-qualified level string for NEARBY, APPROACH and STOP, and the
\* command IDLE when the side returns to IDLE; a return to IDLE is never
\* silent.
C19_CommandFollowsNewLevel ==
    \A n \in 1..Len(trace), side \in Sides :
       LET c == trace[n]
           level == NewLevel(c, side)
           sent_for_level == FromSources(c.sent, {side})
       IN /\ level \in LevelsOf(side)
          /\ level # OldLevel(c, side) =>
                /\ Len(sent_for_level) = 1
                /\ sent_for_level[1].line.args = <<>>
                /\ sent_for_level[1].line.cmd =
                      IF level = "URGENT" THEN "URGENT"
                      ELSE IF level = "IDLE" THEN "IDLE"
                      ELSE level

\* both sides return from URGENT to IDLE and each sends the command IDLE
C19_Witness ==
    /\ AfterCycle
    /\ script = LevelsScript
    /\ LastCycle.prev_origin = "URGENT" /\ LastCycle.origin_alert = "IDLE"
    /\ LastCycle.prev_dest = "URGENT" /\ LastCycle.dest_alert = "IDLE"
    /\ Lines(FromSources(LastCycle.sent, {"origin"})) = << Cmd("IDLE") >>
    /\ Lines(FromSources(LastCycle.sent, {"dest"})) = << Cmd("IDLE") >>

-----------------------------------------------------------------------------
(* Claims about the stored last levels (Spec) *)

\* C20: the stored last levels start as IDLE and IDLE, and at the end of
\* every completed poll cycle the stored last level of each side is the
\* level classified from that cycle's ETA of the side, IDLE included,
\* however the delivery to the device went.
C20_StoredLevelIsClassifiedLevel ==
    /\ handler = "none" => (last_origin_alert = "IDLE" /\ last_dest_alert = "IDLE")
    /\ AfterCycle =>
          /\ last_origin_alert = check_origin_alerts(LastCycle.o_secs)
          /\ last_dest_alert = check_dest_alerts(LastCycle.d_secs)
          /\ last_origin_alert = LastCycle.origin_alert
          /\ last_dest_alert = LastCycle.dest_alert

\* the origin returned from URGENT to IDLE in a cycle whose writes to the
\* device raised, and IDLE is stored
C20_Witness ==
    /\ AfterCycle
    /\ LastCycle.prev_origin = "URGENT"
    /\ LastCycle.o_secs = None
    /\ last_origin_alert = "IDLE"
    /\ \E i \in 1..Len(LastCycle.sent) :
          /\ LastCycle.sent[i].src = "origin"
          /\ "write_failed" \in LastCycle.sent[i].hw

-----------------------------------------------------------------------------
(* Claims about the side the orientation command names (SpecOrient) *)

Oriented == call.fn = "send_led_status_update" /\ call.result # <<>>
OriginEta == call.args[1]
DestEta == call.args[2]

\* C21: the orientation command names the side with the sooner ETA:
\* LED_STATUS_ORIGIN when the origin ETA is strictly smaller than the
\* destination ETA or only the origin ETA is present, LED_STATUS_DEST when
\* the destination ETA is smaller or only the destination ETA is present,
\* LED_STATUS_NONE when both are absent; equal ETAs give LED_STATUS_DEST.
C21_OrientationNamesSoonerSide ==
    Oriented =>
        /\ Len(sends) = 1
        /\ sends[1].line.args = <<>>
        /\ (OriginEta # None /\ DestEta # None /\ OriginEta[1] < DestEta[1])
              => sends[1].line.cmd = "LED_STATUS_ORIGIN"
        /\ (OriginEta # None /\ DestEta = None)
              => sends[1].line.cmd = "LED_STATUS_ORIGIN"
        /\ (OriginEta # None /\ DestEta # None /\ DestEta[1] < OriginEta[1])
              => sends[1].line.cmd = "LED_STATUS_DEST"
        /\ (OriginEta = None /\ DestEta # None)
              => sends[1].line.cmd = "LED_STATUS_DEST"
        /\ (OriginEta = None /\ DestEta = None)
              => sends[1].line.cmd = "LED_STATUS_NONE"
        /\ (OriginEta # None /\ DestEta # None /\ OriginEta[1] = DestEta[1])
              => sends[1].line.cmd = "LED_STATUS_DEST"

\* both ETAs are 50 s and the command names the destination
C21_Witness ==
    /\ Oriented
    /\ OriginEta = Some(50)
    /\ DestEta = Some(50)
    /\ Lines(sends) = << Cmd("LED_STATUS_DEST") >>

-----------------------------------------------------------------------------
(* Claims about the recovery of the device channel (Spec) *)

\* discovery, open or write of the call failed
Failed(send) == send.hw \cap {"no_port", "open_failed", "write_failed"} # {}

\* C22: after a write failure or a failed discovery the channel recovers by
\* itself: the failure leaves no open handle, every later send (simulation
\* not forced) first retries discovery and open, the command is simulated
\* as long as the retry fails, and the first send whose retry succeeds is
\* written to the hardware and, the device taking the write, logged as a
\* hardware command on the handle that stays open.
C22_ChannelRecoversByRetry ==
    ~SIM_MODE =>
        /\ \A i \in Calls :
              /\ Failed(sends[i]) => sends[i].conn_after = "None"
              /\ (i > 1 /\ Failed(sends[i - 1])) => sends[i].conn_before = "None"
              /\ sends[i].conn_before = "None" =>
                    /\ "comports" \in sends[i].hw
                    /\ IF sends[i].hw \cap {"no_port", "open_failed"} # {}
                       THEN /\ "write" \notin sends[i].hw
                            /\ EntryOf(i).kind = "sim_cmd"
                            /\ sends[i].sim_after = Some(sends[i].line)
                       ELSE /\ {"open", "write"} \subseteq sends[i].hw
                            /\ "write_failed" \notin sends[i].hw =>
                                  /\ sends[i].conn_after = "open"
                                  /\ EntryOf(i) = [kind |-> "arduino_cmd",
                                                   payload |-> Payload(sends[i].line, NoNote)]
        /\ (AfterCycle /\ Len(trace) >= 2 /\ Failed(Last(trace[Len(trace) - 1].sent)))
              => sends[1].conn_before = "None"

\* the last send of the first cycle failed on the write, and the first send
\* of the second cycle reopened the port, was written and logged as a
\* hardware command
C22_Witness ==
    /\ ~SIM_MODE
    /\ AfterCycle
    /\ Len(trace) = 2
    /\ "write_failed" \in Last(trace[1].sent).hw
    /\ sends[1].conn_before = "None"
    /\ {"comports", "open", "write"} \subseteq sends[1].hw
    /\ sends[1].conn_after = "open"
    /\ EntryOf(1).kind = "arduino_cmd"

-----------------------------------------------------------------------------
(* Claims about the wait for the ready banner (SpecConnect) *)

Connecting == call.fn = "connect_to_arduino"

\* C23: a connect attempt waits for the ready banner only for a bounded
\* window (3 s and one read timeout at most) and never blocks
\* indefinitely: it returns; once the port is open it returns True and
\* leaves the handle open, when the banner was read and also when the
\* window elapsed without a banner.
C23_BannerWaitIsBounded ==
    /\ [](Connecting =>
            threads.connect.waited < (READY_WINDOW_SECS + READ_TIMEOUT_SECS) * TicksPerSec)
    /\ [](Connecting => <>(threads.connect.pc = "returned"))
    /\ []((Connecting /\ threads.connect.pc = "returned" /\ "open_failed" \notin hw_calls
             /\ "no_port" \notin hw_calls)
          => (call.result = << TRUE >> /\ arduino_connection = "open"))

\* connect returned True after the whole window passed without a banner
C23_Witness ==
    /\ Connecting
    /\ threads.connect.pc = "returned"
    /\ ~threads.connect.banner
    /\ threads.connect.waited >= READY_WINDOW_SECS * TicksPerSec
    /\ call.result = << TRUE >>

-----------------------------------------------------------------------------
(* Claims about the event log entry of a send (Spec) *)

\* the line reached the open port and the write did not raise
Written(send) == "write" \in send.hw /\ "write_failed" \notin send.hw

\* C24: every send appends exactly one event-log entry, which carries the
\* command text: a handler that makes n sends lengthens the log by n, the
\* entry of a send is an arduino_cmd entry if and only if the line was
\* written to the open port without error, and a sim_cmd entry in every
\* other case (forced simulation, no device, write error).
C24_OneLogEntryPerSend ==
    /\ [][Len(event_log') =
            Len(event_log) + (IF cycle' # cycle THEN Len(sends') ELSE 0)]_vars
    /\ [](/\ Len(event_log) >= Len(sends)
          /\ \A i \in Calls :
                /\ EntryOf(i).payload.send = sends[i].line
                /\ EntryOf(i).kind =
                      (IF Written(sends[i]) THEN "arduino_cmd" ELSE "sim_cmd"))

\* a cycle whose writes raised, each of them logged as simulated, and then
\* a cycle whose sends were written and logged as hardware commands
C24_Witness ==
    /\ AfterCycle
    /\ Len(trace) = 2
    /\ \E k \in 1..LastCycle.log_len :
          event_log[k] = SimEntry(Cmd("LED_STATUS_NONE"), "auto-fallback-error")
    /\ Len(sends) > 1
    /\ \A i \in Calls : Written(sends[i]) /\ EntryOf(i).kind = "arduino_cmd"
    /\ Len(event_log) = LastCycle.log_len + Len(sends)

-----------------------------------------------------------------------------
(* Claims about concurrent appends to the event log (SpecLogRace) *)

LogRacing == call.fn = "_log_event" /\ DOMAIN threads = {"lists", "bound", "appended", "poll", "request"}

\* no thread is inside _log_event
LogQuiet == \A t \in LogThreads : threads[t].pc = "idle"

\* log holds the newest entries of all, in their order, and nothing else
NewestOf(log, all) ==
    /\ Len(log) <= Len(all)
    /\ log = SubSeq(all, Len(all) - Len(log) + 1, Len(all))

\* C25: when the poll loop and the request path append to the event log
\* concurrently, no appended entry is lost except by the eviction of the
\* oldest entries: once both are out of _log_event the log holds the
\* newest of all appended entries, none dropped by the other thread's
\* truncation.
C25_NoAppendLostToTruncation ==
    (LogRacing /\ LogQuiet) => NewestOf(event_log, threads.appended)

\* both threads have appended while the log was at its capacity, and a
\* truncation has rebound the log
C25_Witness ==
    /\ LogRacing /\ LogQuiet
    /\ threads.poll.done > 0 /\ threads.request.done > 0
    /\ threads.bound > 1
    /\ Len(threads.appended) > EVENT_LOG_MAX

-----------------------------------------------------------------------------
(* Claims about the requests next to the poll loop (SpecApi) *)

RequestHandlers == {"buzz", "selftest", "create_session", "board_trip", "progress"}

\* the level commands of a side among sent
LevelCommands(sent, side) == FromSources(sent, {side})

\* C26: the stored last levels are changed only by the dispatch of the poll
\* loop: a step of /buzz, /selftest or a session endpoint sends its
\* commands and leaves last_origin_alert and last_dest_alert as they were,
\* so the next cycle compares its level with the level of the cycle before
\* and sends no level command for a side whose level is the same, whatever
\* was injected in between.
C26_OnlyDispatchStoresLevels ==
    /\ [][(handler' \in RequestHandlers /\ cycle' = cycle)
            => /\ last_origin_alert' = last_origin_alert
               /\ last_dest_alert' = last_dest_alert]_vars
    /\ []((AfterCycle /\ Len(trace) > 1) =>
            \A side \in Sides :
               /\ OldLevel(LastCycle, side) = NewLevel(trace[Len(trace) - 1], side)
               /\ NewLevel(LastCycle, side) = NewLevel(trace[Len(trace) - 1], side)
                     => LevelCommands(LastCycle.sent, side) = <<>>)

\* /buzz sent IDLE to the device between two cycles that both found the
\* origin NEARBY; the second cycle sent no origin command
C26_Witness ==
    /\ AfterCycle
    /\ Len(trace) = 2
    /\ requests = 1 /\ sessions = <<>>
    /\ trace[1].origin_alert = "ORIGIN_NEARBY"
    /\ LastCycle.origin_alert = "ORIGIN_NEARBY"
    /\ LastCycle.log_len > 0
    /\ event_log[LastCycle.log_len].payload.send = Cmd("IDLE")
    /\ LevelCommands(LastCycle.sent, "origin") = <<>>
    /\ last_origin_alert = "ORIGIN_NEARBY"


\* the commands of the device: levels per side, URGENT, IDLE, the
\* orientation commands, STATUS_UPDATE, and tones
Vocabulary ==
    { side \o "_" \o level : side \in {"ORIGIN", "DEST"},
                             level \in {"NEARBY", "APPROACH", "STOP"} }
    \cup {"URGENT", "IDLE", "LED_STATUS_ORIGIN", "LED_STATUS_DEST", "LED_STATUS_NONE",
          "STATUS_UPDATE"}

InVocabulary(line) ==
    \/ line.cmd \in Vocabulary /\ line.args = <<>>
    \/ /\ line.cmd \in {"TONE", "BUZZ"}
       /\ Len(line.args) = 2
       /\ line.args[1] \in Int /\ line.args[2] \in Int

\* C27: every line handed to the device channel, by the poll loop, by a
\* session cue or by /buzz and /selftest, belongs to the closed command
\* vocabulary.
C27_LinesAreInVocabulary ==
    \A i \in Calls : InVocabulary(sends[i].line)

\* /buzz has handed a line with a side prefix to the device channel
C27_Witness ==
    /\ handler = "buzz"
    /\ Len(sends) = 1
    /\ HasSidePrefix(sends[1].line.cmd)
    /\ EntryOf(1).payload.send = sends[1].line

-----------------------------------------------------------------------------
(* Claims about a cycle whose fetch or correlation fails (Spec) *)

FailedCycle == AfterCycle /\ LastCycle.failed # <<>>

\* C28: in a cycle whose prediction fetch or correlation fails the data is
\* treated as absent: the cached origin ETA, destination ETA and trip id
\* become null and the timestamp is the one of this cycle, both sides
\* classify to IDLE, and each side whose stored level was not IDLE gets
\* the IDLE command in this cycle and is stored as IDLE.
C28_FailedFetchClearsTheCache ==
    FailedCycle =>
        /\ last_origin_secs = None /\ last_dest_secs = None /\ last_trip_id = NoTrip
        /\ last_updated_iso = Some(cycle)
        /\ LastCycle.origin_alert = "IDLE" /\ LastCycle.dest_alert = "IDLE"
        /\ \A side \in Sides :
              OldLevel(LastCycle, side) # "IDLE" =>
                 Lines(FromSources(LastCycle.sent, {side})) = << Cmd("IDLE") >>
        /\ last_origin_alert = "IDLE" /\ last_dest_alert = "IDLE"

\* the fetch failed in the cycle after one that had found both sides at a
\* level, and both sides got their IDLE command
C28_Witness ==
    /\ FailedCycle
    /\ Len(trace) = 2
    /\ trace[1].o_secs # None /\ trace[1].d_secs # None
    /\ LastCycle.prev_origin # "IDLE" /\ LastCycle.prev_dest # "IDLE"
    /\ Lines(FromSources(LastCycle.sent, Sides)) = << Cmd("IDLE"), Cmd("IDLE") >>
    /\ last_origin_secs = None

-----------------------------------------------------------------------------
(* Claims about the standalone controller (SpecKeychain) *)

\* a pass of the loop of main has gone through with both fetches
KeychainCycleDone ==
    /\ call.fn = "main" /\ handler = "main"
    /\ trace # <<>>
    /\ LastCycle.fetch_ok

LevelNames ==
    { side \o "_" \o level : side \in {"ORIGIN", "DEST"},
                             level \in {"NEARBY", "APPROACH", "STOP"} }
    \cup {"URGENT", "IDLE"}

Unchanged(c) == c.origin_alert = c.prev_origin /\ c.dest_alert = c.prev_dest

\* C29: in the standalone loop a cycle in which neither side's level
\* differs from its previously emitted level sends no alert-level command
\* to the device.
C29_LevelCommandsOnlyOnChange ==
    (KeychainCycleDone /\ Unchanged(LastCycle)) =>
        \A i \in 1..Len(LastCycle.sent) : LastCycle.sent[i].line.cmd \notin LevelNames

\* what a pass does send: the dispatch of a side sends the side's level
\* exactly when it differs from the previously emitted level; beyond that,
\* a pass in which both stops have an upcoming arrival sends the level of
\* the side that is sooner (the destination on a tie) and STATUS_UPDATE,
\* changed or not, and a pass in which a stop has none sends nothing more.
KeychainSendsOnChangeAndContinuously ==
    KeychainCycleDone =>
        LET c == LastCycle
        IN /\ \A side \in Sides :
                 Lines(FromSources(c.sent, {side})) =
                    IF NewLevel(c, side) # OldLevel(c, side)
                    THEN << Cmd(NewLevel(c, side)) >> ELSE <<>>
           /\ Lines(FromSources(c.sent, {"continuous"})) =
                 IF c.origin_arrival # None /\ c.dest_arrival # None
                 THEN << Cmd(IF c.origin_arrival[1] < c.dest_arrival[1]
                             THEN c.origin_alert ELSE c.dest_alert),
                         Cmd("STATUS_UPDATE") >>
                 ELSE <<>>
           /\ Len(c.sent) = Len(FromSources(c.sent, Sides \cup {"continuous"}))

\* a second cycle finds both sides at the level of the first, and sends
\* the origin level again
C29_Witness ==
    /\ KeychainCycleDone
    /\ Len(trace) = 2
    /\ Unchanged(LastCycle)
    /\ LastCycle.origin_alert = "ORIGIN_NEARBY"
    /\ Lines(LastCycle.sent) = << Cmd("ORIGIN_NEARBY"), Cmd("STATUS_UPDATE") >>


\* both stops have an upcoming arrival in the last pass: the two ETAs are
\* classified and compared for the alert of lines 233-240
BothArrivals(c) == c.origin_arrival # None /\ c.dest_arrival # None

\* C30: in the standalone loop the origin ETA and the destination ETA used
\* together in one cycle, for the classification and for the choice of the
\* prioritized alert, are those of the same vehicle trip.
C30_EtasAreOfOneTrip ==
    (KeychainCycleDone /\ BothArrivals(LastCycle)) =>
        LastCycle.origin_trip = LastCycle.dest_trip

\* a pass classified both ETAs and sent the alert of the sooner side
C30_Witness ==
    /\ KeychainCycleDone
    /\ BothArrivals(LastCycle)
    /\ LastCycle.origin_trip = "A" /\ LastCycle.dest_trip = "B"
    /\ LastCycle.origin_alert = "ORIGIN_NEARBY" /\ LastCycle.dest_alert = "DEST_NEARBY"
    /\ Lines(FromSources(LastCycle.sent, {"continuous"})) =
          << Cmd("ORIGIN_NEARBY"), Cmd("STATUS_UPDATE") >>

-----------------------------------------------------------------------------
(* Claims about the cue of a session state (SpecEmit) *)

EmitReturned == call.fn = "emit_state_change" /\ call.result # <<>>

\* C31: emit_state_change fires the cue of a session state once per
\* transition: called with the state the session emitted last it sends
\* nothing and changes nothing (session, channel, event log); called with
\* another state it sends the two lines of that state's cue and records
\* the state as last emitted.
C31_CueOncePerTransition ==
    EmitReturned =>
        LET session   == call.args[1]
            new_state == call.args[2]
        IN IF session.last_emitted_state = new_state
           THEN /\ sends = <<>>
                /\ call.result[1] = session
                /\ event_log = <<>> /\ sim_last_cmd = None
                /\ arduino_connection = "None" /\ hw_calls = {}
           ELSE /\ Lines(sends) = CueLines(new_state)
                /\ Len(sends) = 2
                /\ Len(event_log) = 2
                /\ call.result[1] = [session EXCEPT !.last_emitted_state = new_state]

\* a session that had emitted ONBOARD was called with ONBOARD, and nothing
\* was sent
C31_Witness ==
    /\ EmitReturned
    /\ call.args[1].last_emitted_state = "ONBOARD"
    /\ call.args[2] = "ONBOARD"
    /\ sends = <<>>
    /\ call.result[1].last_emitted_state = "ONBOARD"

-----------------------------------------------------------------------------
(* Claims about the shape of the matched ETAs (SpecPair) *)

\* C32: whatever the two fetches bring, the cached status holds a
\* destination ETA only together with an origin ETA and a trip id (so does
\* the result of match_origin_dest_by_trip, which a cycle stores as it is),
\* and the poll loop hands LED_STATUS_DEST to the channel only in a cycle
\* whose origin ETA is present.
C32_DestEtaOnlyWithOriginAndTrip ==
    /\ last_dest_secs # None => last_origin_secs # None /\ last_trip_id # NoTrip
    /\ \A i \in 1..Len(trace) :
          /\ trace[i].d_secs # None => trace[i].o_secs # None
          /\ \A k \in 1..Len(trace[i].sent) :
                trace[i].sent[k].line = Cmd("LED_STATUS_DEST")
                   => trace[i].o_secs # None /\ trace[i].d_secs # None

\* a cycle matched a trip whose destination ETA is the smaller one, and
\* LED_STATUS_DEST was sent with both ETAs cached
C32_Witness ==
    /\ AfterCycle
    /\ last_origin_secs = Some(200) /\ last_dest_secs = Some(25)
    /\ last_trip_id = "B"
    /\ \E k \in 1..Len(sends) : sends[k].line = Cmd("LED_STATUS_DEST")

-----------------------------------------------------------------------------
(* Claims about what the trip correlator compares (SpecMatch) *)

\* the destination rows of a trip
OfTrip(trip_id) == { j \in 1..Len(DestArg) : DestArg[j].trip_id = trip_id }

\* C33: match_origin_dest_by_trip matches on the trip id alone: whenever an
\* origin row with a trip id and a destination row carry the same trip id,
\* whatever their direction_id and whichever ETA is the smaller, a pair is
\* returned; the destination ETA returned is the smallest ETA among the
\* destination rows of the returned trip.
C33_MatchesOnTripIdAlone ==
    Returned =>
        /\ (\E i \in 1..Len(OriginArg) :
               OriginArg[i].trip_id # NoTrip /\ OfTrip(OriginArg[i].trip_id) # {})
              => MatchResult.dest_secs # None
        /\ MatchResult.dest_secs # None =>
              /\ \E j \in OfTrip(MatchResult.trip_id) :
                    MatchResult.dest_secs = Some(int(DestArg[j].secs))
              /\ \A j \in OfTrip(MatchResult.trip_id) :
                    MatchResult.dest_secs[1] <= int(DestArg[j].secs)

\* the one origin row is 3 s away in direction 0; two destination rows of
\* its trip, in direction 1, are 0 s and 3 s away: the pair is made with
\* the nearer one, whose ETA is below the origin ETA
C33_Witness ==
    /\ Returned
    /\ Len(OriginArg) = 1 /\ Len(DestArg) = 2
    /\ OriginArg[1].trip_id = "A" /\ OriginArg[1].direction_id = 0
    /\ int(OriginArg[1].secs) = 3
    /\ DestArg[1].trip_id = "A" /\ DestArg[1].direction_id = 1
    /\ DestArg[2].trip_id = "A" /\ DestArg[2].direction_id = 1
    /\ int(DestArg[1].secs) = 0 /\ int(DestArg[2].secs) = 3
    /\ MatchResult = [origin_secs |-> Some(3), dest_secs |-> Some(0), trip_id |-> "A"]

-----------------------------------------------------------------------------
(* Claims about the two sides on one device (Spec) *)

OtherSide(side) == IF side = "origin" THEN "dest" ELSE "origin"

\* C34: the two sides are deduplicated independently and share the device:
\* in a cycle where one side returns to IDLE while the stored level of the
\* other side is not IDLE, the IDLE command is sent for the returning side
\* all the same, and the level command of the other side is not sent again
\* as long as its level is the one stored.
C34_IdleSentWhileOtherSideActive ==
    \A n \in 1..Len(trace), side \in Sides :
       LET c == trace[n]
           other == OtherSide(side)
       IN (/\ NewLevel(c, side) = "IDLE" /\ OldLevel(c, side) # "IDLE"
           /\ OldLevel(c, other) # "IDLE")
          => /\ Lines(LevelCommands(c.sent, side)) = << Cmd("IDLE") >>
             /\ NewLevel(c, other) = OldLevel(c, other)
                   => DispatchedFor(c, other) = <<>>

\* both sides became URGENT in the first cycle; in the second the
\* destination prediction is gone: the only level command of the cycle is
\* IDLE, the device took it, and the origin side is still stored as URGENT
C34_Witness ==
    /\ AfterCycle /\ Len(trace) = 2
    /\ trace[1].origin_alert = "URGENT" /\ trace[1].dest_alert = "URGENT"
    /\ last_origin_alert = "URGENT" /\ last_dest_alert = "IDLE"
    /\ Lines(FromSources(sends, Sides)) = << Cmd("IDLE") >>
    /\ \A i \in 1..Len(sends) : sends[i].src \in Sides => Written(sends[i])

-----------------------------------------------------------------------------
(* Claims about the session state machine (SpecSession) *)

\* the place of a state on the way of a session
Rank(state) ==
    CASE state = "AWAITING_BOARD" -> 1
      [] state = "ONBOARD" -> 2
      [] state = "APPROACHING_DEST" -> 3
      [] state = "ARRIVED" -> 4

\* C35: over any sequence of /board and /progress requests the state of a
\* session only moves forward along AWAITING_BOARD, ONBOARD,
\* APPROACHING_DEST, ARRIVED: no request takes it to an earlier state, and
\* ARRIVED is never left.
C35_StateOnlyMovesForward ==
    [][\A id \in DOMAIN sessions :
          Rank(sessions'[id].state) >= Rank(sessions[id].state)]_vars

\* the session had arrived (the DEST_STOP cue is in the event log), and
\* /board has just put it back to ONBOARD and sent the ONBOARD cue
C35_Witness ==
    /\ call.fn = "board_trip"
    /\ sessions[1].state = "ONBOARD"
    /\ \E i \in 1..Len(event_log) : event_log[i].payload.send = Cmd("DEST_STOP")
    /\ Lines(sends) = << Cmd("IDLE"), Tone("BUZZ", 600, 40) >>

ProgressServed == call'.fn = "progress" /\ requests' # requests

\* C36: a /progress request changes the state of its session only from
\* ONBOARD to APPROACHING_DEST when the destination ETA is at most 240, and
\* from ONBOARD or APPROACHING_DEST to ARRIVED when the ETA is 0; with ETA 0
\* on an ONBOARD session it makes both transitions and sends the
\* APPROACHING_DEST cue and then the ARRIVED cue; an AWAITING_BOARD session
\* is left as it is and nothing is sent, whatever the countdown.
C36_ProgressTransitions ==
    [][ProgressServed =>
          LET id     == call'.args[1]
              eta    == call'.args[2]
              before == sessions[id]
              after  == sessions'[id]
          IN /\ after.state =
                   (IF before.state \in {"ONBOARD", "APPROACHING_DEST"} /\ eta = 0
                    THEN "ARRIVED"
                    ELSE IF before.state = "ONBOARD" /\ eta <= 240
                    THEN "APPROACHING_DEST"
                    ELSE before.state)
             /\ after.trip_id = before.trip_id
             /\ (before.state = "ONBOARD" /\ eta = 0) =>
                   Lines(sends') = << Cmd("DEST_APPROACH"), Tone("BUZZ", 1000, 150),
                                      Cmd("DEST_STOP"), Tone("BUZZ", 1200, 350) >>
             /\ before.state = "AWAITING_BOARD" => after = before /\ sends' = <<>>
             /\ after.state = before.state => sends' = <<>>]_vars

\* /progress with ETA 0 has just taken a session from ONBOARD to ARRIVED
\* and sent both cues
C36_Witness ==
    /\ call.fn = "progress" /\ call.args[2] = 0
    /\ sessions[1].state = "ARRIVED"
    /\ Lines(sends) = << Cmd("DEST_APPROACH"), Tone("BUZZ", 1000, 150),
                         Cmd("DEST_STOP"), Tone("BUZZ", 1200, 350) >>

====
